---- MODULE Spec2Model ----
(***************************************************************************)
(* CG DB-Writer (zergont/DB_MQTT): the ingest pipeline (src/main.py), the  *)
(* message dispatcher (src/handlers.py) and the watchdog (src/watchdog.py) *)
(* as one state machine.  Every coroutine is a process whose position is   *)
(* the await it is suspended at; a step runs a coroutine from one await    *)
(* to the next.                                                            *)
(***************************************************************************)
EXTENDS Integers, Sequences, FiniteSets, TLC

VARIABLES
    cfg,              \* AppConfig: the ingest section (config.py IngestCfg)
    lim,              \* what is observed: how many messages and ticks, which tasks
    clock,            \* datetime.now(timezone.utc), in ticks
    shutdown,         \* _shutdown() has cancelled every task
    inbox,            \* client.messages: arrived, not yet handed to the loop
    narrived,         \* how many messages have reached the subscription
    last_arrival,     \* entity -> when its last message reached the subscription
    live,             \* entity -> its messages have kept coming within its offline threshold
    received,         \* kind -> how many items the ingest loop has built
    ing_pc,           \* _mqtt_ingest_loop: "recv" | "put_wait" | "cancelled"
    ing_item,         \* the item a blocked put holds
    q_telemetry,      \* asyncio.Queue(maxsize = telemetry_queue_maxsize)
    q_decoded,        \* asyncio.Queue(maxsize = decoded_queue_maxsize)
    unfinished,       \* kind -> Queue._unfinished_tasks
    dropped,          \* kind -> how many items the put policy threw away
    wpc,              \* _worker_loop: "get" | "wait" | "dispatch" | "txn" | "sleep" | "exited"
    witem,            \* worker -> the item it holds
    wsrc,             \* worker -> src ("telemetry" | "decoded")
    attempt,          \* worker -> attempt
    wcalls,           \* worker -> dispatch() invocations for the item it holds
    ntaken,           \* kind -> how many items workers have dequeued
    last_seen,        \* main._last_seen
    panel_last_seen,  \* main._panel_last_seen
    gps_raw_history,  \* the table gps_raw_history, in insert order
    router_state,     \* watchdog._router_state
    panel_state,      \* watchdog._panel_state
    events,           \* the events table rows the watchdog inserted
    wd_pc,            \* watchdog_loop: "sleep" | "r_emit" | "p_emit" | "cancelled"
    wd_now,           \* _check: now
    wd_todo,          \* _check: what is left of the snapshot being iterated
    wd_wake,          \* when asyncio.sleep(interval) is over
    wd_errors,        \* how often "Watchdog check error" was logged
    last_class,       \* entity -> the record of its latest evaluation by _check
    events_policy,    \* AppConfig: the events_policy flags the handlers read
    gps_filters,      \* handlers._gps_filters: router -> GpsFilter
    gps_latest_filtered, \* the table gps_latest_filtered: router -> row
    g_pc,             \* the worker on a telemetry item: "idle" | "txn" | "sleep"
    g_msg,            \* the telemetry message it holds
    g_pt,             \* _handle_telemetry: pt
    g_verdict,        \* _handle_telemetry: verdict
    g_attempt,        \* _worker_loop: attempt, for that item
    g_wake,           \* when asyncio.sleep(worker_retry_delay_sec) is over
    g_n,              \* how many telemetry messages the worker has taken
    g_pre,            \* the router's filter as it was when the message was taken
    history_policy,   \* AppConfig: history_policy (defaults, kpi_map())
    register_catalog, \* the table register_catalog: addr -> row
    latest_state,     \* the table latest_state: addr -> row
    history,          \* the table history, in insert order
    last_history_ts,  \* handlers._last_history_ts
    h_pc,             \* the worker on a decoded item: "idle" | "begin" | "staged" | "sleep"
    h_msg,            \* the decoded message it holds
    h_now,            \* _handle_decoded: now
    h_staged,         \* _handle_decoded: latest_rows_map, history_batch
    h_attempt,        \* _worker_loop: attempt, for that item
    h_wake,           \* when asyncio.sleep(worker_retry_delay_sec) is over
    h_n,              \* how many decoded messages the worker has taken
    h_trace,          \* the samples of the scenario taken so far, with their times
    r_cfg,            \* RetentionCfg
    r_rows,           \* the rows retention looks at: table, id, received_at / created_at
    r_pc,             \* retention_loop: "sleep", or the table whose cleanup call runs
    r_total,          \* cleanup_<table>: total
    r_counts,         \* _do_cleanup: n1, n2, n3, by table
    r_sweeps,         \* how many sweeps have been started
    r_start,          \* r_rows when the cleanup call in progress was made
    r_done,           \* the complete sweeps: when each ended, r_rows and the counts then
    r_wake,           \* retention_loop: when its sleep ends
    r_from,           \* when the sweep in progress, or the last one, began
    r_turn,           \* cleanup_<table>: the parity of the rounds made so far
    mqtt,             \* MqttCfg: reconnect_min_delay, reconnect_max_delay
    c_pc,             \* _mqtt_ingest_loop: "connect" | "subscribe" | "messages" | "sleep"
    delay,            \* _mqtt_ingest_loop: delay
    c_fails,          \* broker-transport failures since the last successful connect
    c_slept,          \* the delays slept so far, in order
    c_ups,            \* how many times the loop has connected and subscribed
    o_log,            \* the dispatch calls made, in order: queue and item
    d_in,             \* the arguments of a call of should_write_history
    d_out,            \* what the call returned, once it has
    hw                \* _handle_decoded in each of two worker tasks, and how many calls

conf_vars == <<cfg, lim>>
ing_vars == <<inbox, narrived, last_arrival, live, received, ing_pc, ing_item>>
queue_vars == <<q_telemetry, q_decoded, unfinished, dropped>>
worker_vars == <<wpc, witem, wsrc, attempt, wcalls, ntaken>>
pipe_vars == <<conf_vars, shutdown, ing_vars, queue_vars, worker_vars,
               gps_raw_history>>
live_vars == <<last_seen, panel_last_seen>>
wd_vars == <<router_state, panel_state, events, wd_pc, wd_now, wd_todo,
             wd_wake, wd_errors, last_class>>
gps_vars == <<events_policy, gps_filters, gps_latest_filtered, g_pc, g_msg, g_pt,
              g_verdict, g_attempt, g_wake, g_n, g_pre>>
hist_vars == <<history_policy, register_catalog, latest_state, history,
               last_history_ts, h_pc, h_msg, h_now, h_staged, h_attempt, h_wake, h_n>>
\* What the pipeline and watchdog steps leave alone: the handlers' own state
trace_vars == <<h_trace>>
ret_vars == <<r_cfg, r_rows, r_pc, r_total, r_counts, r_sweeps, r_start, r_done, r_wake,
             r_from, r_turn>>
conn_vars == <<mqtt, c_pc, delay, c_fails, c_slept, c_ups>>
order_vars == <<o_log>>
decide_vars == <<d_in, d_out>>
race_vars == <<hw>>
side_vars == <<ret_vars, conn_vars, order_vars, decide_vars, race_vars>>
handler_vars == <<gps_vars, hist_vars, trace_vars, side_vars>>
vars == <<pipe_vars, live_vars, wd_vars, clock, handler_vars>>

----------------------------------------------------------------------------
(* Bounds of the model *)

PipeMaxMsgs == 3
PipeMaxTime == 1
MaxInbox == 1
MaxRetries == 1
WatchMaxMsgs == 3
WatchMaxTime == 4
TelMax == 1
DecMax == 2

Routers == {"r1"}
Panels == {"1"}
NonNumeric == "x"
None == "None"
Kinds == {"telemetry", "decoded"}

WorkerCounts == {1, 2}
Workers == 1..2

\* The topics the two subscriptions deliver: cg/v1/telemetry/SN/<sn> and
\* cg/v1/decoded/SN/<sn>/pcc/<panel>, <panel> numeric or not.
Topics ==
    [kind : {"telemetry"}, sn : Routers, panel : {None}]
      \cup [kind : {"decoded"}, sn : Routers, panel : Panels \cup {NonNumeric}]

\* Payloads by what the handlers make of them.
Payloads(topic) ==
    IF topic.kind = "telemetry" THEN {"gps", "badjson"}
    ELSE IF topic.panel = NonNumeric THEN {"regs"}
    ELSE {"regs", "badjson"}

\* The same, and the payloads that are not text in any encoding JSON allows
AllPayloads(topic) == Payloads(topic) \cup {"badbytes"}

NoItem == [kind |-> None]

----------------------------------------------------------------------------
(* Helpers *)

\* d[k] = v on a dict
Put(d, k, v) == [x \in DOMAIN d \cup {k} |-> IF x = k THEN v ELSE d[x]]

\* _RE_TELEMETRY / _RE_DECODED
IsTelemetryTopic(topic) == topic.kind = "telemetry"
IsDecodedTopic(topic) == topic.kind = "decoded" /\ topic.panel # NonNumeric

MaxSize(kind) ==
    IF kind = "telemetry" THEN cfg.telemetry_queue_maxsize
                          ELSE cfg.decoded_queue_maxsize

Queue(kind) == IF kind = "telemetry" THEN q_telemetry ELSE q_decoded

(* config.py EventsPolicyCfg, in ticks *)
router_stale_sec == 2
router_offline_sec == 3
panel_stale_sec == 2
panel_offline_sec == 3
check_interval_sec == 1

OfflineSec(kind) == IF kind = "router" THEN router_offline_sec ELSE panel_offline_sec
StaleSec(kind) == IF kind = "router" THEN router_stale_sec ELSE panel_stale_sec

\* An entity of either map under one name
RouterEnt(sn) == <<"router", sn, "">>
PanelEnt(key) == <<"panel", key[1], key[2]>>
Entity(kind, key) == IF kind = "router" THEN RouterEnt(key) ELSE PanelEnt(key)

\* The entities a topic names
EntitiesOf(topic) ==
    {RouterEnt(topic.sn)} \cup
    (IF topic.kind = "decoded" /\ topic.panel # NonNumeric
     THEN {PanelEnt(<<topic.sn, topic.panel>>)} ELSE {})

KindOfEnt(e) == e[1]

\* A worker is running: it is between two awaits, and on the one thread of
\* the event loop no other task resumes before it suspends.
Busy == \E w \in Workers : wpc[w] \in {"get", "dispatch"}

----------------------------------------------------------------------------
(* main._touch_last_seen *)

touch_last_seen(ls, topic, now) ==
    IF topic.kind \in {"telemetry", "decoded"} THEN Put(ls, topic.sn, now) ELSE ls

touch_panel_last_seen(pls, topic, now) ==
    IF topic.kind = "decoded" /\ topic.panel # NonNumeric
    THEN Put(pls, <<topic.sn, topic.panel>>, now)
    ELSE pls

----------------------------------------------------------------------------
(* main._queue_put: what a put does to a queue.  blocked: the caller is left *)
(* in `await q.put(item)`; lost: how many items were thrown away; done: the  *)
(* task_done() calls made; put: the item went into the queue.                *)

\* Mutant: drop_oldest throws away the newest queued item, not the head
queue_put_DropsTail(q, item, maxsize, drop_when_full, drop_policy) ==
    IF Len(q) < maxsize
    THEN [q |-> Append(q, item), blocked |-> FALSE, lost |-> 0, done |-> 0,
          put |-> TRUE]
    ELSE IF ~drop_when_full
    THEN [q |-> q, blocked |-> TRUE, lost |-> 0, done |-> 0, put |-> FALSE]
    ELSE IF drop_policy = "drop_new"
    THEN [q |-> q, blocked |-> FALSE, lost |-> 1, done |-> 0, put |-> FALSE]
    ELSE [q |-> Append(SubSeq(q, 1, Len(q) - 1), item), blocked |-> FALSE,
          lost |-> 1, done |-> 1, put |-> TRUE]

\* Mutant: the test of drop_when_full is lost, a full queue always drops
queue_put_NeverBlocks(q, item, maxsize, drop_when_full, drop_policy) ==
    IF Len(q) < maxsize
    THEN [q |-> Append(q, item), blocked |-> FALSE, lost |-> 0, done |-> 0,
          put |-> TRUE]
    ELSE IF drop_policy = "drop_new"
    THEN [q |-> q, blocked |-> FALSE, lost |-> 1, done |-> 0, put |-> FALSE]
    ELSE [q |-> Append(Tail(q), item), blocked |-> FALSE, lost |-> 1,
          done |-> 1, put |-> TRUE]

queue_put(q, item, maxsize, drop_when_full, drop_policy) ==
    IF Len(q) < maxsize
    THEN [q |-> Append(q, item), blocked |-> FALSE, lost |-> 0, done |-> 0,
          put |-> TRUE]
    ELSE IF ~drop_when_full
    THEN [q |-> q, blocked |-> TRUE, lost |-> 0, done |-> 0, put |-> FALSE]
    ELSE IF drop_policy = "drop_new"
    THEN [q |-> q, blocked |-> FALSE, lost |-> 1, done |-> 0, put |-> FALSE]
    ELSE \* drop_oldest: get_nowait() and task_done(), then put_nowait(item)
         LET q1 == IF q # <<>> THEN Tail(q) ELSE q
             got == IF q # <<>> THEN 1 ELSE 0
         IN IF Len(q1) < maxsize
            THEN [q |-> Append(q1, item), blocked |-> FALSE, lost |-> got,
                  done |-> got, put |-> TRUE]
            ELSE [q |-> q1, blocked |-> FALSE, lost |-> got + 1,
                  done |-> got, put |-> FALSE]

\* Mutant: the telemetry put is given the decoded queue's drop flag
DropWhenFull_FromConfig(kind) == cfg.drop_decoded_when_full

\* The arguments _mqtt_ingest_loop passes for each kind
DropWhenFull(kind) ==
    IF kind = "telemetry" THEN FALSE ELSE cfg.drop_decoded_when_full
DropPolicy(kind) ==
    IF kind = "telemetry" THEN "drop_oldest" ELSE cfg.drop_decoded_policy

\* kind = "telemetry" if topic.startswith("cg/v1/telemetry/") else "decoded"
KindOf(topic) == IF topic.kind = "telemetry" THEN "telemetry" ELSE "decoded"

----------------------------------------------------------------------------
(* The broker side: a message reaches the subscription *)

Arrive(topic, payload) ==
    /\ ~shutdown
    /\ ~Busy
    /\ narrived < lim.msgs
    /\ Len(inbox) < MaxInbox
    /\ inbox' = Append(inbox, [topic |-> topic, payload |-> payload])
    /\ narrived' = narrived + 1
    /\ last_arrival' = [e \in DOMAIN last_arrival \cup EntitiesOf(topic) |->
                            IF e \in EntitiesOf(topic) THEN clock
                            ELSE last_arrival[e]]
    /\ live' = [e \in DOMAIN live \cup EntitiesOf(topic) |->
                    IF e \in DOMAIN live THEN live[e] ELSE TRUE]
    /\ UNCHANGED <<handler_vars, conf_vars, clock, shutdown, received, ing_pc, ing_item,
                   queue_vars, worker_vars, gps_raw_history, live_vars, wd_vars>>

----------------------------------------------------------------------------
(* main._mqtt_ingest_loop: one iteration of `async for msg in client.messages` *)

IngestReceive ==
    /\ ~shutdown
    /\ ~Busy
    /\ ing_pc = "recv"
    /\ inbox # <<>>
    /\ LET msg == Head(inbox)
           kind == KindOf(msg.topic)
           \* received_at: datetime.now() read at reception, here the item's
           \* place among the messages the loop has received; followed only
           \* where the order of the items is looked at (lim.stamps)
           item == [topic |-> msg.topic, payload |-> msg.payload,
                    received_at |-> IF lim.stamps
                                    THEN received["telemetry"] + received["decoded"] + 1
                                    ELSE 0,
                    kind |-> kind]
           r == queue_put(Queue(kind), item, MaxSize(kind),
                          DropWhenFull(kind), DropPolicy(kind))
       IN /\ inbox' = Tail(inbox)
          /\ received' = [received EXCEPT ![kind] = @ + 1]
          /\ last_seen' = touch_last_seen(last_seen, msg.topic, clock)
          /\ panel_last_seen' =
                 touch_panel_last_seen(panel_last_seen, msg.topic, clock)
          /\ q_telemetry' = IF kind = "telemetry" THEN r.q ELSE q_telemetry
          /\ q_decoded' = IF kind = "decoded" THEN r.q ELSE q_decoded
          /\ unfinished' = [unfinished EXCEPT ![kind] =
                               @ + (IF r.put THEN 1 ELSE 0) - r.done]
          /\ dropped' = [dropped EXCEPT ![kind] = @ + r.lost]
          /\ ing_pc' = IF r.blocked THEN "put_wait" ELSE "recv"
          /\ ing_item' = IF r.blocked THEN item ELSE NoItem
    /\ UNCHANGED <<handler_vars, conf_vars, clock, shutdown, narrived, last_arrival, live,
                   worker_vars, gps_raw_history, wd_vars>>

\* `await q.put(item)` returns: a slot is free
IngestPutResume ==
    /\ ~shutdown
    /\ ~Busy
    /\ ing_pc = "put_wait"
    /\ Len(Queue(ing_item.kind)) < MaxSize(ing_item.kind)
    /\ q_telemetry' = IF ing_item.kind = "telemetry"
                      THEN Append(q_telemetry, ing_item) ELSE q_telemetry
    /\ q_decoded' = IF ing_item.kind = "decoded"
                    THEN Append(q_decoded, ing_item) ELSE q_decoded
    /\ unfinished' = [unfinished EXCEPT ![ing_item.kind] = @ + 1]
    /\ ing_pc' = "recv"
    /\ ing_item' = NoItem
    /\ UNCHANGED <<handler_vars, conf_vars, clock, shutdown, inbox, narrived, last_arrival,
                   live, received, dropped, worker_vars, gps_raw_history, live_vars,
                   wd_vars>>

----------------------------------------------------------------------------
(* main._worker_loop *)

\* range(max(1, int(cfg.ingest.worker_count)))
ActiveWorkers == 1..(IF cfg.worker_count < 1 THEN 1 ELSE cfg.worker_count)

\* Lines 220-225: the queue an iteration takes from when it takes at once.
worker_pick(qt, qd) == IF qt # <<>> THEN "telemetry" ELSE "decoded"

\* Mutant: the queue hands out its newest item
queue_get_Newest(q) == [item |-> q[Len(q)], q |-> SubSeq(q, 1, Len(q) - 1)]

\* asyncio.Queue.get_nowait() / get(): the oldest item leaves the queue
queue_get(q) == [item |-> Head(q), q |-> Tail(q)]

Take(w, src) ==
    /\ witem' = [witem EXCEPT ![w] = queue_get(Queue(src)).item]
    /\ wsrc' = [wsrc EXCEPT ![w] = src]
    /\ q_telemetry' = IF src = "telemetry" THEN queue_get(q_telemetry).q
                      ELSE q_telemetry
    /\ q_decoded' = IF src = "decoded" THEN queue_get(q_decoded).q ELSE q_decoded
    /\ ntaken' = [ntaken EXCEPT ![src] = @ + 1]
    /\ attempt' = [attempt EXCEPT ![w] = 0]
    /\ wcalls' = [wcalls EXCEPT ![w] = 0]
    /\ wpc' = [wpc EXCEPT ![w] = "dispatch"]

\* The top of the loop: get_nowait() on telemetry, else q_decoded.get(),
\* which returns at once when the decoded queue holds an item and suspends
\* the worker when it does not.
WorkerGet(w) ==
    /\ ~shutdown
    /\ wpc[w] = "get"
    /\ LET src == worker_pick(q_telemetry, q_decoded)
       IN IF Queue(src) # <<>>
          THEN Take(w, src)
          ELSE /\ wpc' = [wpc EXCEPT ![w] = "wait"]
               /\ wsrc' = [wsrc EXCEPT ![w] = "decoded"]
               /\ UNCHANGED <<witem, q_telemetry, q_decoded, ntaken, attempt,
                              wcalls>>
    /\ UNCHANGED <<handler_vars, conf_vars, clock, shutdown, ing_vars, unfinished, dropped,
                   gps_raw_history, live_vars, wd_vars>>

\* `await q_decoded.get()` returns: the decoded queue holds an item
WorkerWake(w) ==
    /\ ~shutdown
    /\ ~Busy
    /\ wpc[w] = "wait"
    /\ q_decoded # <<>>
    /\ Take(w, "decoded")
    /\ UNCHANGED <<handler_vars, conf_vars, clock, shutdown, ing_vars, unfinished, dropped,
                   gps_raw_history, live_vars, wd_vars>>

\* Lines 256-260: the queue task_done() is called on
task_done_queue(src) == IF src = "telemetry" THEN "telemetry" ELSE "decoded"

\* break, the finally path, and back to the top of the loop
Finish(w) ==
    /\ unfinished' = [unfinished EXCEPT ![task_done_queue(wsrc[w])] = @ - 1]
    /\ witem' = [witem EXCEPT ![w] = NoItem]
    /\ attempt' = [attempt EXCEPT ![w] = 0]
    /\ wpc' = [wpc EXCEPT ![w] = "get"]

----------------------------------------------------------------------------
(* handlers.dispatch, up to its first store operation *)

\* Lines 55 and 68: last_seen[router_sn] = now
dispatch_last_seen(ls, topic, now) ==
    IF IsTelemetryTopic(topic) \/ IsDecodedTopic(topic)
    THEN Put(ls, topic.sn, now) ELSE ls

\* Line 69: panel_last_seen[(router_sn, panel_id)] = now
dispatch_panel_last_seen(pls, topic, now) ==
    IF IsDecodedTopic(topic) THEN Put(pls, <<topic.sn, topic.panel>>, now) ELSE pls

\* The message reaches a handler's transaction: the topic matches, the JSON
\* parses and the handler finds what it requires.
NeedsStore(item) ==
    \/ IsTelemetryTopic(item.topic) /\ item.payload = "gps"
    \/ IsDecodedTopic(item.topic) /\ item.payload = "regs"

\* Mutant: one retry too many
Exhausted_OneMore(n, max_retries) == n > max_retries + 1

\* Lines 236-237: attempt += 1; if attempt > ic.worker_max_retries
Exhausted(n, max_retries) == n > max_retries

\* json.loads(payload_bytes) on bytes that are no UTF-8, UTF-16 or UTF-32
\* text raises UnicodeDecodeError, which is no json.JSONDecodeError: lines
\* 56-60 and 70-74 do not catch it and it leaves dispatch
loads_raises(item) ==
    /\ IsTelemetryTopic(item.topic) \/ IsDecodedTopic(item.topic)
    /\ item.payload = "badbytes"

DispatchBegin(w) ==
    /\ ~shutdown
    /\ wpc[w] = "dispatch"
    /\ wcalls' = [wcalls EXCEPT ![w] = @ + 1]
    /\ last_seen' = dispatch_last_seen(last_seen, witem[w].topic, clock)
    /\ panel_last_seen' =
           dispatch_panel_last_seen(panel_last_seen, witem[w].topic, clock)
    /\ IF loads_raises(witem[w])
       THEN \* the worker's `except Exception`, as for a store failure
            IF Exhausted(attempt[w] + 1, cfg.worker_max_retries)
            THEN Finish(w)
            ELSE /\ attempt' = [attempt EXCEPT ![w] = @ + 1]
                 /\ wpc' = [wpc EXCEPT ![w] = "sleep"]
                 /\ UNCHANGED <<unfinished, witem>>
       ELSE IF NeedsStore(witem[w])
       THEN /\ wpc' = [wpc EXCEPT ![w] = "txn"]
            /\ UNCHANGED <<unfinished, witem, attempt>>
       ELSE Finish(w)
    /\ o_log' = IF lim.stamps
                THEN Append(o_log, [src |-> wsrc[w],
                                    received_at |-> witem[w].received_at])
                ELSE o_log
    /\ UNCHANGED <<gps_vars, hist_vars, trace_vars, ret_vars, conn_vars, decide_vars,
                   race_vars,
                   conf_vars, clock,
                   shutdown, ing_vars, q_telemetry, q_decoded, dropped, wsrc, ntaken,
                   gps_raw_history, wd_vars>>

\* Mutant: the raw row is inserted twice
raw_rows_Twice(item) ==
    IF IsTelemetryTopic(item.topic)
    THEN <<[router_sn |-> item.topic.sn], [router_sn |-> item.topic.sn]>>
    ELSE <<>>

\* _handle_telemetry lines 138-153: the raw rows one committed transaction adds
raw_rows(item) ==
    IF IsTelemetryTopic(item.topic) THEN <<[router_sn |-> item.topic.sn]>>
    ELSE <<>>

\* The transaction commits and dispatch returns
StoreCommit(w) ==
    /\ ~shutdown
    /\ ~Busy
    /\ wpc[w] = "txn"
    /\ gps_raw_history' = gps_raw_history \o raw_rows(witem[w])
    /\ Finish(w)
    /\ UNCHANGED <<handler_vars, conf_vars, clock, shutdown, ing_vars, q_telemetry, q_decoded,
                   dropped, wsrc, wcalls, ntaken, live_vars, wd_vars>>

\* A store operation raises: the transaction rolls back, `except Exception`
StoreFail(w) ==
    /\ ~shutdown
    /\ ~Busy
    /\ wpc[w] = "txn"
    /\ IF Exhausted(attempt[w] + 1, cfg.worker_max_retries)
       THEN Finish(w)
       ELSE /\ attempt' = [attempt EXCEPT ![w] = @ + 1]
            /\ wpc' = [wpc EXCEPT ![w] = "sleep"]
            /\ UNCHANGED <<unfinished, witem>>
    /\ UNCHANGED <<handler_vars, conf_vars, clock, shutdown, ing_vars, q_telemetry, q_decoded,
                   dropped, wsrc, wcalls, ntaken, gps_raw_history, live_vars,
                   wd_vars>>

\* asyncio.sleep(worker_retry_delay_sec) is over
RetryWake(w) ==
    /\ ~shutdown
    /\ ~Busy
    /\ wpc[w] = "sleep"
    /\ wpc' = [wpc EXCEPT ![w] = "dispatch"]
    /\ UNCHANGED <<handler_vars, conf_vars, clock, shutdown, ing_vars, queue_vars, witem,
                   wsrc, attempt, wcalls, ntaken, gps_raw_history, live_vars,
                   wd_vars>>

----------------------------------------------------------------------------
(* watchdog._check, _emit_router_event, _emit_panel_event *)

\* d.get(k, default)
GetOr(d, k, default) == IF k \in DOMAIN d THEN d[k] ELSE default

\* list(d.items()): with one key per map the order is the only one there is
RECURSIVE ItemsOf(_, _)
ItemsOf(d, keys) ==
    IF keys = {} THEN <<>>
    ELSE LET k == CHOOSE x \in keys : TRUE
         IN <<<<k, d[k]>>>> \o ItemsOf(d, keys \ {k})
Items(d) == ItemsOf(d, DOMAIN d)

\* Mutant: the thresholds are compared strictly
classify_Strict(age, offline_sec, stale_sec) ==
    IF age > offline_sec THEN "offline"
    ELSE IF age > stale_sec THEN "stale"
    ELSE "online"

\* Lines 53-58 and 69-74
classify(age, offline_sec, stale_sec) ==
    IF age >= offline_sec THEN "offline"
    ELSE IF age >= stale_sec THEN "stale"
    ELSE "online"

\* _emit_router_event / _emit_panel_event: the event type, None for `return`
event_type(prev, new) ==
    IF new = "offline" THEN "offline"
    ELSE IF new = "online" /\ prev \in {"offline", "stale"} THEN "online"
    ELSE None

\* What _check computed for an entity, and what came of it.  cur: in the
\* latest sweep.
Evaluation(age, prev, new, out) ==
    [cur |-> TRUE, age |-> age, prev |-> prev, new |-> new, out |-> out]

\* A new sweep: no evaluation is of this sweep yet
Stale(lc) == [e \in DOMAIN lc |-> [lc[e] EXCEPT !.cur = FALSE]]

\* Mutant: the remembered state is never read, prev is always the default
RECURSIVE run_loop_ForgetsState(_, _, _, _, _)
run_loop_ForgetsState(kind, todo, st, lc, now) ==
    IF todo = <<>>
    THEN [todo |-> <<>>, st |-> st, lc |-> lc, emit |-> FALSE]
    ELSE LET key == Head(todo)[1]
             age == now - Head(todo)[2]
             prev == "online"
             new == classify(age, OfflineSec(kind), StaleSec(kind))
             ent == Entity(kind, key)
         IN IF new = prev
            THEN run_loop_ForgetsState(kind, Tail(todo), st,
                          Put(lc, ent, Evaluation(age, prev, new, "same")),
                          now)
            ELSE IF event_type(prev, new) = None
            THEN run_loop_ForgetsState(kind, Tail(todo), Put(st, key, new),
                          Put(lc, ent, Evaluation(age, prev, new, "silent")),
                          now)
            ELSE [todo |-> todo, st |-> st, emit |-> TRUE,
                  lc |-> Put(lc, ent, Evaluation(age, prev, new, "pending"))]

\* One of the two for-loops of _check from `todo` on, up to the first await
\* (an event insert) or to its end.  st: the state dict, lc: last_class.
RECURSIVE run_loop(_, _, _, _, _)
run_loop(kind, todo, st, lc, now) ==
    IF todo = <<>>
    THEN [todo |-> <<>>, st |-> st, lc |-> lc, emit |-> FALSE]
    ELSE LET key == Head(todo)[1]
             age == now - Head(todo)[2]
             prev == GetOr(st, key, "online")
             new == classify(age, OfflineSec(kind), StaleSec(kind))
             ent == Entity(kind, key)
         IN IF new = prev
            THEN run_loop(kind, Tail(todo), st,
                          Put(lc, ent, Evaluation(age, prev, new, "same")),
                          now)
            ELSE IF event_type(prev, new) = None
            THEN run_loop(kind, Tail(todo), Put(st, key, new),
                          Put(lc, ent, Evaluation(age, prev, new, "silent")),
                          now)
            ELSE [todo |-> todo, st |-> st, emit |-> TRUE,
                  lc |-> Put(lc, ent, Evaluation(age, prev, new, "pending"))]

\* _check from the routers loop at `todo` on: where it gets to
check_from_routers(todo, rs, ps, lc, now) ==
    LET r == run_loop("router", todo, rs, lc, now)
        p == run_loop("panel", Items(panel_last_seen), ps, r.lc, now)
    IN IF r.emit
       THEN [pc |-> "r_emit", todo |-> r.todo, rs |-> r.st, ps |-> ps, lc |-> r.lc]
       ELSE IF p.emit
       THEN [pc |-> "p_emit", todo |-> p.todo, rs |-> r.st, ps |-> p.st, lc |-> p.lc]
       ELSE [pc |-> "sleep", todo |-> <<>>, rs |-> r.st, ps |-> p.st, lc |-> p.lc]

\* _check from the panels loop at `todo` on
check_from_panels(todo, rs, ps, lc, now) ==
    LET p == run_loop("panel", todo, ps, lc, now)
    IN [pc |-> IF p.emit THEN "p_emit" ELSE "sleep",
        todo |-> p.todo, rs |-> rs, ps |-> p.st, lc |-> p.lc]

WdGoto(r) ==
    /\ wd_pc' = r.pc
    /\ wd_todo' = r.todo
    /\ router_state' = r.rs
    /\ panel_state' = r.ps
    /\ last_class' = r.lc
    /\ wd_wake' = IF r.pc = "sleep" THEN clock + check_interval_sec ELSE wd_wake

\* asyncio.sleep(interval) is over: _check starts
WdSweep ==
    /\ ~shutdown
    /\ ~Busy
    /\ wd_pc = "sleep"
    /\ clock >= wd_wake
    /\ wd_now' = clock
    /\ WdGoto(check_from_routers(Items(last_seen), router_state, panel_state,
                                 Stale(last_class), clock))
    /\ UNCHANGED <<handler_vars, pipe_vars, live_vars, clock, events, wd_errors>>

\* The entity whose event insert _check is suspended at
WdKind == IF wd_pc = "r_emit" THEN "router" ELSE "panel"
WdKey == Head(wd_todo)[1]
WdPrev == GetOr(IF wd_pc = "r_emit" THEN router_state ELSE panel_state,
                WdKey, "online")
WdNew == classify(wd_now - Head(wd_todo)[2], OfflineSec(WdKind), StaleSec(WdKind))

\* db.insert_event returns: the state is remembered and the loop goes on
WdInsertOk ==
    /\ ~shutdown
    /\ ~Busy
    /\ wd_pc \in {"r_emit", "p_emit"}
    /\ LET ent == Entity(WdKind, WdKey)
           lc == [last_class EXCEPT ![ent].out = "emitted"]
       IN /\ events' = Append(events, [entity |-> ent,
                                       type |-> event_type(WdPrev, WdNew),
                                       prev |-> WdPrev, new |-> WdNew])
          /\ IF wd_pc = "r_emit"
             THEN WdGoto(check_from_routers(Tail(wd_todo),
                             Put(router_state, WdKey, WdNew), panel_state,
                             lc, wd_now))
             ELSE WdGoto(check_from_panels(Tail(wd_todo), router_state,
                             Put(panel_state, WdKey, WdNew), lc, wd_now))
    /\ UNCHANGED <<handler_vars, pipe_vars, live_vars, clock, wd_now, wd_errors>>

\* Mutant: the new state is remembered although the insert raised
state_on_raise_Remembers(st, key, new) == Put(st, key, new)

\* Lines 60-62 and 76-78: the `await _emit_..._event(...)` raises, the
\* assignment after it is not reached
state_on_raise(st, key, new) == st

\* db.insert_event raises: _check ends, watchdog_loop logs and sleeps again
WdInsertFail ==
    /\ ~shutdown
    /\ ~Busy
    /\ wd_pc \in {"r_emit", "p_emit"}
    /\ wd_errors' = wd_errors + 1
    /\ last_class' = [last_class EXCEPT ![Entity(WdKind, WdKey)].out = "failed"]
    /\ router_state' = IF wd_pc = "r_emit"
                       THEN state_on_raise(router_state, WdKey, WdNew)
                       ELSE router_state
    /\ panel_state' = IF wd_pc = "p_emit"
                      THEN state_on_raise(panel_state, WdKey, WdNew)
                      ELSE panel_state
    /\ wd_pc' = "sleep"
    /\ wd_todo' = <<>>
    /\ wd_wake' = clock + check_interval_sec
    /\ UNCHANGED <<handler_vars, pipe_vars, live_vars, clock, events, wd_now>>

----------------------------------------------------------------------------
(* Time, and the shutdown signal *)

IngestRunnable ==
    \/ ing_pc = "recv" /\ inbox # <<>>
    \/ ing_pc = "put_wait" /\ Len(Queue(ing_item.kind)) < MaxSize(ing_item.kind)

WorkerRunnable(w) == wpc[w] = "wait" /\ q_decoded # <<>>

WdRunnable == wd_pc = "sleep" /\ clock >= wd_wake

\* A second passes.  What the event loop can run at once it runs before:
\* only a store operation, a sleep or an empty queue takes time.
Tick ==
    /\ ~shutdown
    /\ ~Busy
    /\ clock < lim.time
    /\ ~IngestRunnable
    /\ \A w \in ActiveWorkers : ~WorkerRunnable(w)
    /\ ~WdRunnable
    /\ clock' = clock + 1
    /\ live' = [e \in DOMAIN live |->
                    live[e] /\ clock + 1 - last_arrival[e] < OfflineSec(KindOfEnt(e))]
    /\ UNCHANGED <<handler_vars, conf_vars, shutdown, inbox, narrived, last_arrival, received,
                   ing_pc, ing_item, queue_vars, worker_vars, gps_raw_history,
                   live_vars, wd_vars>>

\* main._shutdown: task.cancel() on every task.  Each task gets
\* CancelledError at the await it is suspended at: a worker that holds an
\* item leaves through `finally` (task_done), the ingest loop returns, the
\* watchdog ends.
Holding(w) == wpc[w] \in {"txn", "sleep"}

Shutdown ==
    /\ ~shutdown
    /\ ~Busy
    /\ shutdown' = TRUE
    /\ unfinished' =
           [k \in Kinds |->
               unfinished[k] - Cardinality({w \in ActiveWorkers :
                   Holding(w) /\ task_done_queue(wsrc[w]) = k})]
    /\ wpc' = [w \in Workers |-> IF w \in ActiveWorkers THEN "exited" ELSE wpc[w]]
    /\ witem' = [w \in Workers |-> NoItem]
    /\ attempt' = [w \in Workers |-> 0]
    /\ ing_pc' = "cancelled"
    /\ wd_pc' = IF wd_pc = "off" THEN "off" ELSE "cancelled"
    /\ UNCHANGED <<handler_vars, conf_vars, clock, inbox, narrived, last_arrival, live,
                   received, ing_item, q_telemetry, q_decoded, dropped, wsrc, wcalls,
                   ntaken, gps_raw_history, live_vars, router_state,
                   panel_state, events, wd_now, wd_todo, wd_wake, wd_errors,
                   last_class>>

----------------------------------------------------------------------------
(* gps_filter.GpsFilter and handlers._handle_telemetry.  Positions are     *)
(* metres along one meridian, so the great-circle distance of two points   *)
(* is the difference of their positions; time is in seconds.               *)

GpsMaxMsgs == 2
GpsMaxTime == 2

(* config.py GpsFilterCfg and IngestCfg.worker_retry_delay_sec *)
sats_min == 4
fix_min == 1
deadband_m == 30
max_jump_m == 500
max_speed_kmh == 120
confirm_radius_m == 50
worker_retry_delay_sec == 2

(* GpsFilterCfg.confirm_points, scaled: any value >= 1 can be configured *)
confirm_points == 2

\* An int | None field: <<>> is None, <<n>> is n
Some(n) == <<n>>
IsNone(x) == x = <<>>

\* Where the routers of the model can be
Positions == {0, 10, 60, 600, 620}

\* satellites and fix_status as a message can carry them
Qualities ==
    {[satellites |-> Some(sats_min), fix_status |-> Some(fix_min)],
     [satellites |-> Some(sats_min - 1), fix_status |-> Some(fix_min)],
     [satellites |-> <<>>, fix_status |-> Some(fix_min - 1)]}

\* Telemetry payloads: with a GPS block, or without one
GpsMessages ==
    {[router_sn |-> sn, gps |-> TRUE, pos |-> p, satellites |-> q.satellites,
      fix_status |-> q.fix_status] : sn \in Routers, p \in Positions, q \in Qualities}
    \cup {[router_sn |-> sn, gps |-> FALSE, pos |-> 0, satellites |-> <<>>,
           fix_status |-> <<>>] : sn \in Routers}

\* _haversine_m on one meridian
haversine_m(a, b) == IF a >= b THEN a - b ELSE b - a

\* GpsPoint(lat, lon, satellites, fix_status, gps_time, received_at)
GpsPoint(msg, now) ==
    [pos |-> msg.pos, satellites |-> msg.satellites,
     fix_status |-> msg.fix_status, received_at |-> now]

\* GpsFilter.__init__
NewFilter == [last_accepted |-> <<>>, confirm |-> <<>>]

\* GpsVerdict
GpsVerdict(accepted, reject_reason) ==
    [accepted |-> accepted, reject_reason |-> reject_reason]

\* A call of check: the filter it leaves and the verdict it returns
Checked(flt, accepted, reject_reason) ==
    [flt |-> flt, verdict |-> GpsVerdict(accepted, reject_reason)]

\* Mutant: _accept clears the buffer and forgets to record the point
accept_Forgets(flt, pt) == [last_accepted |-> flt.last_accepted, confirm |-> <<>>]

\* Mutant: _accept records the point and keeps the buffer
accept_KeepsBuffer(flt, pt) == [last_accepted |-> <<pt>>, confirm |-> flt.confirm]

\* GpsFilter._accept
accept(flt, pt) == [last_accepted |-> <<pt>>, confirm |-> <<>>]

\* Mutant: the buffer has to hold one point more than confirm_points
try_confirm_OneMore(flt, pt, reason) ==
    IF flt.confirm # <<>>
       /\ haversine_m(flt.confirm[1].pos, pt.pos) > confirm_radius_m
    THEN Checked([flt EXCEPT !.confirm = <<pt>>], FALSE, reason)
    ELSE LET buf == Append(flt.confirm, pt)
         IN IF Len(buf) > confirm_points
            THEN Checked(accept(flt, pt), TRUE, None)
            ELSE Checked([flt EXCEPT !.confirm = buf], FALSE, reason)

\* GpsFilter._try_confirm
try_confirm(flt, pt, reason) ==
    IF flt.confirm # <<>>
       /\ haversine_m(flt.confirm[1].pos, pt.pos) > confirm_radius_m
    THEN Checked([flt EXCEPT !.confirm = <<pt>>], FALSE, reason)
    ELSE LET buf == Append(flt.confirm, pt)
         IN IF Len(buf) >= confirm_points
            THEN Checked(accept(flt, pt), TRUE, None)
            ELSE Checked([flt EXCEPT !.confirm = buf], FALSE, reason)

\* Mutant: a point of bad quality resets the whole filter
clear_confirm_Resets(flt) == NewFilter

\* Mutant: the quality gate and the deadband leave the buffer as it is
clear_confirm_Keeps(flt) == flt

\* self._confirm.points.clear()
clear_confirm(flt) == [flt EXCEPT !.confirm = <<>>]

\* GpsFilter.check
check(flt, pt) ==
    IF ~IsNone(pt.satellites) /\ pt.satellites[1] < sats_min
    THEN Checked(clear_confirm(flt), FALSE, "low_sats")
    ELSE IF ~IsNone(pt.fix_status) /\ pt.fix_status[1] < fix_min
    THEN Checked(clear_confirm(flt), FALSE, "bad_fix")
    ELSE IF flt.last_accepted = <<>>
    THEN Checked(accept(flt, pt), TRUE, None)
    ELSE LET last == flt.last_accepted[1]
             dist == haversine_m(last.pos, pt.pos)
             dt0 == pt.received_at - last.received_at
             dt_sec == IF dt0 <= 0 THEN 1 ELSE dt0
         IN IF dist < deadband_m
            THEN Checked(clear_confirm(flt), TRUE, None)
            ELSE IF dist > max_jump_m
            THEN try_confirm(flt, pt, "jump_distance")
            \* speed_kmh = (dist / dt_sec) * 3.6 > max_speed_kmh
            ELSE IF dist * 36 > max_speed_kmh * dt_sec * 10
            THEN try_confirm(flt, pt, "jump_speed")
            ELSE Checked(accept(flt, pt), TRUE, None)

\* Mutant: the filters start cold whatever the table holds
restore_gps_state_Cold(table) == [sn \in Routers |-> NewFilter]

\* main._restore_gps_state: set_initial from every gps_latest_filtered row
restore_gps_state(table) ==
    [sn \in Routers |->
        IF sn \in DOMAIN table
        THEN [last_accepted |-> <<[pos |-> table[sn].pos,
                                  satellites |-> table[sn].satellites,
                                  fix_status |-> table[sn].fix_status,
                                  received_at |-> table[sn].received_at]>>,
              confirm |-> <<>>]
        ELSE NewFilter]

\* What the pipeline and the watchdog own, and no telemetry handler step touches
beside_gps == <<conf_vars, shutdown, ing_vars, queue_vars, worker_vars, live_vars,
                router_state, panel_state, wd_pc, wd_now, wd_todo, wd_wake,
                wd_errors, last_class, hist_vars, trace_vars, side_vars>>

\* _handle_telemetry lines 109-136, for a message the worker has just taken
\* (first = TRUE) or takes up again after the retry delay
HandleTelemetry(msg, first) ==
    IF ~msg.gps
    THEN \* `if not gps: return`: dispatch returns, the item is done
         /\ g_pc' = "idle"
         /\ g_msg' = msg
         /\ g_pre' = gps_filters[msg.router_sn]
         /\ UNCHANGED <<gps_filters, g_pt, g_verdict>>
    ELSE LET pt == GpsPoint(msg, clock)
             r == check(gps_filters[msg.router_sn], pt)
         IN /\ gps_filters' = [gps_filters EXCEPT ![msg.router_sn] = r.flt]
            /\ g_pt' = pt
            /\ g_verdict' = r.verdict
            /\ g_msg' = msg
            /\ g_pre' = IF first THEN gps_filters[msg.router_sn] ELSE g_pre
            /\ g_pc' = "txn"

\* The worker takes a telemetry message and dispatches it
GpsDispatch(msg) ==
    /\ g_pc = "idle"
    /\ g_n < GpsMaxMsgs
    /\ g_n' = g_n + 1
    /\ g_attempt' = 0
    /\ HandleTelemetry(msg, TRUE)
    /\ UNCHANGED <<beside_gps, clock, events_policy, gps_latest_filtered,
                   gps_raw_history, events, g_wake>>

\* insert_gps_raw, lines 143-153
raw_row(sn, pt, verdict) ==
    [router_sn |-> sn, pos |-> pt.pos, satellites |-> pt.satellites,
     fix_status |-> pt.fix_status, accepted |-> verdict.accepted,
     reject_reason |-> verdict.reject_reason]

\* Mutant: the deadband test of the handler is inverted
update_latest_Inverted(flt, table, sn, pt) ==
    /\ flt.last_accepted # <<>>
    /\ sn \in DOMAIN table
    /\ haversine_m(table[sn].pos, pt.pos) < deadband_m

\* Mutant: every accepted point is written to gps_latest_filtered
update_latest_Always(flt, table, sn, pt) == TRUE

\* Lines 157-164: update_latest
update_latest(flt, table, sn, pt) ==
    ~(/\ flt.last_accepted # <<>>
      /\ sn \in DOMAIN table
      /\ haversine_m(table[sn].pos, pt.pos) < deadband_m)

\* Mutant: the verdict is not looked at before the upsert
upserts_latest_AnyVerdict(verdict, flt, table, sn, pt) ==
    update_latest(flt, table, sn, pt)

\* Lines 155-166: `if verdict.accepted: ... if update_latest:`
upserts_latest(verdict, flt, table, sn, pt) ==
    verdict.accepted /\ update_latest(flt, table, sn, pt)

\* upsert_gps_latest: received_at is the store's now()
latest_row(pt, now) ==
    [pos |-> pt.pos, satellites |-> pt.satellites, fix_status |-> pt.fix_status,
     received_at |-> now]

\* Mutant: the payload is built without the satellites
reject_event_NoSatellites(sn, pt, verdict) ==
    [entity |-> RouterEnt(sn), type |-> "gps_jump_rejected",
     payload |-> [lat |-> pt.pos, lon |-> pt.pos,
                  reject_reason |-> verdict.reject_reason]]

\* insert_event(..., "gps_jump_rejected", payload = {...}), lines 178-189
reject_event(sn, pt, verdict) ==
    [entity |-> RouterEnt(sn), type |-> "gps_jump_rejected",
     payload |-> [lat |-> pt.pos, lon |-> pt.pos,
                  reject_reason |-> verdict.reject_reason,
                  satellites |-> pt.satellites]]

\* The transaction of lines 138-189 commits
GpsCommit ==
    /\ g_pc = "txn"
    /\ LET sn == g_msg.router_sn
       IN /\ gps_raw_history' = Append(gps_raw_history, raw_row(sn, g_pt, g_verdict))
          /\ gps_latest_filtered' =
                IF upserts_latest(g_verdict, gps_filters[sn], gps_latest_filtered,
                                  sn, g_pt)
                THEN Put(gps_latest_filtered, sn, latest_row(g_pt, clock))
                ELSE gps_latest_filtered
          /\ events' =
                IF ~g_verdict.accepted /\ events_policy.enable_gps_reject_events
                THEN Append(events, reject_event(sn, g_pt, g_verdict))
                ELSE events
    /\ g_pc' = "idle"
    /\ UNCHANGED <<beside_gps, clock, events_policy, gps_filters, g_msg, g_pt,
                   g_verdict, g_attempt, g_wake, g_n, g_pre>>

\* The transaction raises and is rolled back: _worker_loop lines 235-254
GpsFail ==
    /\ g_pc = "txn"
    /\ g_attempt' = g_attempt + 1
    /\ IF Exhausted(g_attempt + 1, cfg.worker_max_retries)
       THEN g_pc' = "idle" /\ g_wake' = g_wake
       ELSE g_pc' = "sleep" /\ g_wake' = clock + worker_retry_delay_sec
    /\ UNCHANGED <<beside_gps, clock, events_policy, gps_filters,
                   gps_latest_filtered, gps_raw_history, events, g_msg, g_pt,
                   g_verdict, g_n, g_pre>>

\* The retry delay is over: dispatch is called again with the same message
GpsRetry ==
    /\ g_pc = "sleep"
    /\ clock >= g_wake
    /\ HandleTelemetry(g_msg, FALSE)
    /\ UNCHANGED <<beside_gps, clock, events_policy, gps_latest_filtered,
                   gps_raw_history, events, g_attempt, g_wake, g_n>>

\* A second passes while the worker waits for a message or for its retry
GpsTick ==
    /\ g_pc \in {"idle", "sleep"}
    /\ clock < GpsMaxTime
    /\ clock' = clock + 1
    /\ UNCHANGED <<beside_gps, gps_vars, gps_raw_history, events>>

\* No telemetry handler has run
GpsIdle ==
    /\ g_pc = "idle"
    /\ g_msg = [gps |-> FALSE]
    /\ g_pt = <<>>
    /\ g_verdict = GpsVerdict(FALSE, None)
    /\ g_attempt = 0
    /\ g_wake = 0
    /\ g_n = 0
    /\ g_pre = NewFilter

----------------------------------------------------------------------------
(* history_policy and handlers._handle_decoded, for the registers of one   *)
(* panel: a register key (router_sn, equip_type, panel_id, addr) is its    *)
(* addr.  Values are in tenths, time is in seconds.                        *)

HistMaxMsgs == 2
HistMaxTime == 3

(* config.py HistoryDefaults, scaled *)
tolerance_analog == 5
min_interval_sec == 2
heartbeat_sec == 3

Addrs == {1, 2}
Values == {1500, 1510}

\* One element of registers[]: addr may be missing or not an int
Registers ==
    {[addr |-> a, value |-> Some(v), raw |-> <<>>, text |-> <<>>, reason |-> <<>>] :
        a \in {Some(x) : x \in Addrs}, v \in Values}
    \cup {[addr |-> <<>>, value |-> Some(v), raw |-> <<>>, text |-> <<>>,
           reason |-> <<>>] : v \in {1500}}

\* registers[] of one or two elements
RegisterLists == UNION {[1..n -> Registers] : n \in {1, 2}}

\* Decoded payloads: with a registers list, or without one
DecodedMessages ==
    {[is_list |-> TRUE, registers |-> rs] : rs \in RegisterLists}
    \cup {[is_list |-> FALSE, registers |-> <<>>]}

\* register_catalog as the store can hold it
Catalogs ==
    {<<>>} \cup
    {[a \in {2} |-> [tolerance |-> <<>>, min_interval_sec |-> <<>>,
                     heartbeat_sec |-> <<>>, store_history |-> FALSE,
                     value_kind |-> <<>>]]}

\* abs()
Abs(x) == IF x >= 0 THEN x ELSE -x

\* history_policy.resolve_params
resolve_params(hp, addr, catalog) ==
    LET d == hp.defaults
        row == IF addr \in DOMAIN catalog THEN <<catalog[addr]>> ELSE <<>>
        has == row # <<>>
        tolerance0 == IF has /\ ~IsNone(row[1].tolerance) THEN row[1].tolerance
                      ELSE Some(d.tolerance_analog)
        min_interval == IF has /\ ~IsNone(row[1].min_interval_sec)
                        THEN row[1].min_interval_sec[1] ELSE d.min_interval_sec
        heartbeat0 == IF has /\ ~IsNone(row[1].heartbeat_sec)
                      THEN row[1].heartbeat_sec[1] ELSE d.heartbeat_sec
        store == IF has THEN row[1].store_history ELSE d.store_history
        vk == IF has /\ ~IsNone(row[1].value_kind) THEN row[1].value_kind[1]
              ELSE d.value_kind
        kpi == addr \in DOMAIN hp.kpi_map
        heartbeat == IF kpi THEN hp.kpi_map[addr].heartbeat_sec ELSE heartbeat0
        tolerance1 == IF kpi THEN hp.kpi_map[addr].tolerance ELSE tolerance0
        tolerance == IF vk \in {"discrete", "enum", "text"} THEN <<>> ELSE tolerance1
    IN [tolerance |-> tolerance, min_interval_sec |-> min_interval,
        heartbeat_sec |-> heartbeat, store_history |-> store, value_kind |-> vk]

\* HistoryDecision
HistoryDecision(write, write_reason) == [write |-> write, write_reason |-> write_reason]

\* Mutant: a value that appears or disappears is no change
changed_BothPresent(params, new, prev) ==
    \/ new.raw # prev.raw
    \/ new.text # prev.text
    \/ new.reason # prev.reason
    \/ /\ ~IsNone(params.tolerance)
       /\ ~IsNone(new.value) /\ ~IsNone(prev.value)
       /\ Abs(new.value[1] - prev.value[1]) > params.tolerance[1]

\* Lines 108-127 of should_write_history: changed
changed(params, new, prev) ==
    \/ new.raw # prev.raw
    \/ new.text # prev.text
    \/ new.reason # prev.reason
    \/ /\ ~IsNone(params.tolerance)
       /\ IF ~IsNone(new.value) /\ ~IsNone(prev.value)
          THEN Abs(new.value[1] - prev.value[1]) > params.tolerance[1]
          ELSE new.value # prev.value

\* Mutant: the heartbeat is due only after more than heartbeat_sec
should_write_history_HeartbeatLate(params, new, prev, last_ts, now) ==
    IF ~params.store_history THEN HistoryDecision(FALSE, "")
    ELSE IF ~IsNone(last_ts) /\ now - last_ts[1] < params.min_interval_sec
    THEN HistoryDecision(FALSE, "")
    ELSE IF changed(params, new, prev) THEN HistoryDecision(TRUE, "change")
    ELSE IF IsNone(last_ts) \/ now - last_ts[1] > params.heartbeat_sec
    THEN HistoryDecision(TRUE, "heartbeat")
    ELSE HistoryDecision(FALSE, "")

\* Mutant: the time since the last write is not looked at
should_write_history_NoMinInterval(params, new, prev, last_ts, now) ==
    IF ~params.store_history THEN HistoryDecision(FALSE, "")
    ELSE IF changed(params, new, prev) THEN HistoryDecision(TRUE, "change")
    ELSE IF IsNone(last_ts) \/ now - last_ts[1] >= params.heartbeat_sec
    THEN HistoryDecision(TRUE, "heartbeat")
    ELSE HistoryDecision(FALSE, "")

\* Mutant: store_history is not looked at
should_write_history_IgnoresStore(params, new, prev, last_ts, now) ==
    IF ~IsNone(last_ts) /\ now - last_ts[1] < params.min_interval_sec
    THEN HistoryDecision(FALSE, "")
    ELSE IF changed(params, new, prev) THEN HistoryDecision(TRUE, "change")
    ELSE IF IsNone(last_ts) \/ now - last_ts[1] >= params.heartbeat_sec
    THEN HistoryDecision(TRUE, "heartbeat")
    ELSE HistoryDecision(FALSE, "")

\* history_policy.should_write_history; last_history_ts (last_ts) is <<>> or <<t>>
should_write_history(params, new, prev, last_ts, now) ==
    IF ~params.store_history THEN HistoryDecision(FALSE, "")
    ELSE IF ~IsNone(last_ts)
            /\ now - last_ts[1] < params.min_interval_sec
    THEN HistoryDecision(FALSE, "")
    ELSE IF changed(params, new, prev) THEN HistoryDecision(TRUE, "change")
    ELSE IF IsNone(last_ts)
            \/ now - last_ts[1] >= params.heartbeat_sec
    THEN HistoryDecision(TRUE, "heartbeat")
    ELSE HistoryDecision(FALSE, "")

\* The fields of a latest_state row the decision compares; all None without a row
PrevOf(table, addr) ==
    IF addr \in DOMAIN table THEN table[addr]
    ELSE [value |-> <<>>, raw |-> <<>>, text |-> <<>>, reason |-> <<>>]

NewOf(reg) ==
    [value |-> reg.value, raw |-> reg.raw, text |-> reg.text, reason |-> reg.reason]

\* Lines 329-341: the tuple staged for latest_state
LatestRow(addr, reg) ==
    [addr |-> addr, value |-> reg.value, raw |-> reg.raw, text |-> reg.text,
     reason |-> reg.reason]

\* What _handle_decoded has staged: latest_rows_map, history_batch, and the
\* process-local _last_history_ts
Staged(latest_rows_map, history_batch, cache) ==
    [latest_rows_map |-> latest_rows_map, history_batch |-> history_batch,
     cache |-> cache]

\* Mutant: the first occurrence of an addr is kept
stage_latest_FirstWins(latest_rows_map, addr, row) ==
    IF addr \in DOMAIN latest_rows_map THEN latest_rows_map
    ELSE Put(latest_rows_map, addr, row)

\* Lines 329-341: latest_rows_map[addr] = (...)
stage_latest(latest_rows_map, addr, row) == Put(latest_rows_map, addr, row)

\* _process_register_batched for one element of registers[]
process_register_batched(hp, catalog, prev_map, reg, now, st) ==
    IF IsNone(reg.addr) THEN st
    ELSE LET addr == reg.addr[1]
             params == resolve_params(hp, addr, catalog)
             last_h_ts == IF addr \in DOMAIN st.cache THEN Some(st.cache[addr])
                          ELSE <<>>
             decision == should_write_history(params, NewOf(reg),
                                              PrevOf(prev_map, addr), last_h_ts, now)
             rows == stage_latest(st.latest_rows_map, addr, LatestRow(addr, reg))
         IN IF decision.write
            THEN Staged(rows,
                        Append(st.history_batch,
                               [addr |-> addr, value |-> reg.value, raw |-> reg.raw,
                                text |-> reg.text, reason |-> reg.reason,
                                write_reason |-> decision.write_reason,
                                decided_at |-> now]),
                        Put(st.cache, addr, now))
            ELSE Staged(rows, st.history_batch, st.cache)

\* Lines 252-267: `for reg in registers`
RECURSIVE process_registers(_, _, _, _, _, _)
process_registers(hp, catalog, prev_map, regs, now, st) ==
    IF regs = <<>> THEN st
    ELSE process_registers(hp, catalog, prev_map, Tail(regs), now,
             process_register_batched(hp, catalog, prev_map, Head(regs), now, st))

\* list(latest_rows_map.values())
dict_values(m) == {m[k] : k \in DOMAIN m}

\* Mutant: the batch of latest_state rows is not written
upsert_latest_state_batch_Skips(table, batch) == table

\* upsert_latest_state_batch: one upsert per row of the batch, on its key
upsert_latest_state_batch(table, batch) ==
    [a \in DOMAIN table \cup {r.addr : r \in batch} |->
        IF \E r \in batch : r.addr = a THEN CHOOSE r \in batch : r.addr = a
        ELSE table[a]]

\* What the pipeline, the watchdog and the telemetry handler own
beside_hist == <<conf_vars, shutdown, ing_vars, queue_vars, worker_vars, live_vars,
                 wd_vars, gps_vars, gps_raw_history, trace_vars, side_vars>>

\* The worker takes a decoded message: _handle_decoded up to line 242
HandleDecoded(msg) ==
    /\ h_msg' = msg
    /\ h_now' = clock
    /\ h_staged' = Staged(<<>>, <<>>, last_history_ts)
    /\ h_pc' = IF msg.is_list THEN "begin" ELSE "idle"

HistDispatch(msg) ==
    /\ h_pc = "idle"
    /\ h_n < HistMaxMsgs
    /\ h_n' = h_n + 1
    /\ h_attempt' = 0
    /\ HandleDecoded(msg)
    /\ UNCHANGED <<beside_hist, clock, history_policy, register_catalog,
                   latest_state, history, last_history_ts, h_wake>>

\* Lines 244-267 inside the transaction: the reads and the register loop
HistProcess ==
    /\ h_pc = "begin"
    /\ LET st == process_registers(history_policy, register_catalog, latest_state,
                                   h_msg.registers, h_now, h_staged)
       IN /\ h_staged' = st
          /\ last_history_ts' = st.cache
    /\ h_pc' = "staged"
    /\ UNCHANGED <<beside_hist, clock, history_policy, register_catalog,
                   latest_state, history, h_msg, h_now, h_attempt, h_wake, h_n>>

\* Lines 269-275 and the commit of the transaction
HistCommit ==
    /\ h_pc = "staged"
    /\ latest_state' = upsert_latest_state_batch(latest_state,
                                               dict_values(h_staged.latest_rows_map))
    /\ history' = history \o h_staged.history_batch
    /\ h_pc' = "idle"
    /\ UNCHANGED <<beside_hist, clock, history_policy, register_catalog,
                   last_history_ts, h_msg, h_now, h_staged, h_attempt, h_wake, h_n>>

\* The transaction raises, before or after the register loop, and is rolled
\* back; _last_history_ts is not part of it.  _worker_loop lines 235-254
HistFail ==
    /\ h_pc \in {"begin", "staged"}
    /\ h_attempt' = h_attempt + 1
    /\ IF Exhausted(h_attempt + 1, cfg.worker_max_retries)
       THEN h_pc' = "idle" /\ h_wake' = h_wake
       ELSE h_pc' = "sleep" /\ h_wake' = clock + worker_retry_delay_sec
    /\ UNCHANGED <<beside_hist, clock, history_policy, register_catalog,
                   latest_state, history, last_history_ts, h_msg, h_now, h_staged,
                   h_n>>

\* The retry delay is over: dispatch is called again with the same message
HistRetry ==
    /\ h_pc = "sleep"
    /\ clock >= h_wake
    /\ HandleDecoded(h_msg)
    /\ UNCHANGED <<beside_hist, clock, history_policy, register_catalog,
                   latest_state, history, last_history_ts, h_attempt, h_wake, h_n>>

\* A second passes while the worker waits for a message or for its retry
HistTick ==
    /\ h_pc \in {"idle", "sleep"}
    /\ clock < HistMaxTime
    /\ clock' = clock + 1
    /\ UNCHANGED <<beside_hist, hist_vars>>

\* No decoded handler has run
HistIdle ==
    /\ latest_state = <<>>
    /\ history = <<>>
    /\ last_history_ts = <<>>
    /\ h_pc = "idle"
    /\ h_msg = [is_list |-> FALSE, registers |-> <<>>]
    /\ h_now = 0
    /\ h_staged = Staged(<<>>, <<>>, <<>>)
    /\ h_attempt = 0
    /\ h_wake = 0
    /\ h_n = 0
    /\ h_trace = <<>>

\* HistoryPolicyCfg with the defaults of the model
HistoryPolicy(min_interval, store) ==
    [defaults |-> [tolerance_analog |-> tolerance_analog,
                   min_interval_sec |-> min_interval,
                   heartbeat_sec |-> heartbeat_sec,
                   store_history |-> store,
                   value_kind |-> "analog"],
     kpi_map |-> <<>>]

----------------------------------------------------------------------------
(* The state after _run has created the queues and the tasks *)

Configs ==
    [telemetry_queue_maxsize : {TelMax},
     decoded_queue_maxsize : {DecMax},
     worker_count : WorkerCounts,
     drop_decoded_when_full : BOOLEAN,
     drop_decoded_policy : {"drop_oldest", "drop_new"},
     worker_max_retries : 0..MaxRetries]

InitWith(c, l) ==
    /\ cfg = c
    /\ o_log = <<>>
    /\ lim = l
    /\ clock = 0
    /\ shutdown = FALSE
    /\ inbox = <<>>
    /\ narrived = 0
    /\ last_arrival = <<>>
    /\ live = <<>>
    /\ received = [k \in Kinds |-> 0]
    /\ ing_pc = "recv"
    /\ ing_item = NoItem
    /\ q_telemetry = <<>>
    /\ q_decoded = <<>>
    /\ unfinished = [k \in Kinds |-> 0]
    /\ dropped = [k \in Kinds |-> 0]
    /\ wpc = [w \in Workers |-> IF w <= c.worker_count THEN "get" ELSE "none"]
    /\ witem = [w \in Workers |-> NoItem]
    /\ wsrc = [w \in Workers |-> "telemetry"]
    /\ attempt = [w \in Workers |-> 0]
    /\ wcalls = [w \in Workers |-> 0]
    /\ ntaken = [k \in Kinds |-> 0]
    /\ last_seen = <<>>
    /\ panel_last_seen = <<>>
    /\ gps_raw_history = <<>>
    /\ router_state = <<>>
    /\ panel_state = <<>>
    /\ events = <<>>
    /\ wd_pc = IF l.watchdog THEN "sleep" ELSE "off"
    /\ wd_now = 0
    /\ wd_todo = <<>>
    /\ wd_wake = check_interval_sec
    /\ wd_errors = 0
    /\ last_class = <<>>

PipeNext ==
    \/ \E t \in Topics : \E p \in Payloads(t) : Arrive(t, p)
    \/ IngestReceive
    \/ IngestPutResume
    \/ \E w \in ActiveWorkers : WorkerGet(w)
    \/ \E w \in ActiveWorkers : WorkerWake(w)
    \/ \E w \in ActiveWorkers : DispatchBegin(w)
    \/ \E w \in ActiveWorkers : StoreCommit(w)
    \/ \E w \in ActiveWorkers : StoreFail(w)
    \/ \E w \in ActiveWorkers : RetryWake(w)
    \/ Tick
    \/ Shutdown

\* Retention and the broker connection while the model does not look into them
RetIdle ==
    /\ r_cfg = [gps_raw_hours |-> 2, history_days |-> 1, events_days |-> 2,
                cleanup_interval_hours |-> 24, batch_size |-> 1]
    /\ r_rows = {}
    /\ r_pc = "sleep"
    /\ r_total = 0
    /\ r_counts = <<>>
    /\ r_sweeps = 0
    /\ r_start = {}
    /\ r_done = <<>>
    /\ r_wake = 0
    /\ r_from = 0
    /\ r_turn = 0

ConnIdle ==
    /\ mqtt = [reconnect_min_delay |-> 1, reconnect_max_delay |-> 1]
    /\ c_pc = "connect"
    /\ delay = mqtt.reconnect_min_delay
    /\ c_fails = 0
    /\ c_slept = <<>>
    /\ c_ups = 0

DecideIdle == d_in = <<>> /\ d_out = <<>>

\* main.py lines 281-282 with worker_count = 2: the worker tasks
RaceWorkers == {1, 2}

\* No worker task has taken a decoded message
RaceIdle ==
    hw = [n |-> 0,
          w |-> [i \in RaceWorkers |->
                    [pc |-> "idle", msg |-> [is_list |-> FALSE, registers |-> <<>>],
                     now |-> 0, prev_map |-> <<>>,
                     st |-> Staged(<<>>, <<>>, <<>>)]]]

SideIdle == RetIdle /\ ConnIdle /\ DecideIdle /\ RaceIdle

\* The pipeline alone, under every configuration of its put policy
\* The handlers' own state while the model does not look into them
HandlersIdle ==
    /\ events_policy = [enable_gps_reject_events |-> TRUE]
    /\ gps_latest_filtered = <<>>
    /\ gps_filters = restore_gps_state(gps_latest_filtered)
    /\ GpsIdle
    /\ history_policy = HistoryPolicy(min_interval_sec, TRUE)
    /\ register_catalog = <<>>
    /\ HistIdle

PipeInit ==
    /\ \E c \in Configs : InitWith(c, [msgs |-> PipeMaxMsgs, time |-> PipeMaxTime,
                                    watchdog |-> FALSE, stamps |-> FALSE])
    /\ HandlersIdle
    /\ SideIdle

SpecPipe == PipeInit /\ [][PipeNext]_vars

\* The pipeline with one worker, the order of its dispatch calls followed
OrderMaxMsgs == 3

OrderInit ==
    /\ \E c \in Configs :
          /\ c.worker_count = 1
          /\ InitWith(c, [msgs |-> OrderMaxMsgs, time |-> 0,
                          watchdog |-> FALSE, stamps |-> TRUE])
    /\ HandlersIdle
    /\ SideIdle

\* The clock has no part in the order of the items: it stands still
OrderNext ==
    \/ \E t \in Topics : \E p \in Payloads(t) : Arrive(t, p)
    \/ IngestReceive
    \/ IngestPutResume
    \/ \E w \in ActiveWorkers : WorkerGet(w)
    \/ \E w \in ActiveWorkers : WorkerWake(w)
    \/ \E w \in ActiveWorkers : DispatchBegin(w)
    \/ \E w \in ActiveWorkers : StoreCommit(w)
    \/ \E w \in ActiveWorkers : StoreFail(w)
    \/ \E w \in ActiveWorkers : RetryWake(w)
    \/ Shutdown

SpecOrder == OrderInit /\ [][OrderNext]_vars

\* The pipeline under every payload the broker can deliver
ParseMaxMsgs == 3

ParseNext ==
    \/ \E t \in Topics : \E p \in AllPayloads(t) : Arrive(t, p)
    \/ IngestReceive
    \/ IngestPutResume
    \/ \E w \in ActiveWorkers : WorkerGet(w)
    \/ \E w \in ActiveWorkers : WorkerWake(w)
    \/ \E w \in ActiveWorkers : DispatchBegin(w)
    \/ \E w \in ActiveWorkers : StoreCommit(w)
    \/ \E w \in ActiveWorkers : StoreFail(w)
    \/ \E w \in ActiveWorkers : RetryWake(w)
    \/ Tick
    \/ Shutdown

ParseInit ==
    /\ \E c \in Configs : InitWith(c, [msgs |-> ParseMaxMsgs, time |-> PipeMaxTime,
                                    watchdog |-> FALSE, stamps |-> FALSE])
    /\ HandlersIdle
    /\ SideIdle

SpecParse == ParseInit /\ [][ParseNext]_vars

\* The pipeline with one worker, and the watchdog beside it
WatchNext ==
    \/ \E t \in Topics : \E p \in Payloads(t) : Arrive(t, p)
    \/ IngestReceive
    \/ IngestPutResume
    \/ \E w \in ActiveWorkers : WorkerGet(w)
    \/ \E w \in ActiveWorkers : WorkerWake(w)
    \/ \E w \in ActiveWorkers : DispatchBegin(w)
    \/ \E w \in ActiveWorkers : StoreCommit(w)
    \/ \E w \in ActiveWorkers : StoreFail(w)
    \/ Tick
    \/ WdSweep
    \/ WdInsertOk
    \/ WdInsertFail

WatchInit ==
    \E c \in Configs :
        /\ c.worker_count = 1
        /\ c.worker_max_retries = 0
        /\ c.drop_decoded_when_full
        /\ c.drop_decoded_policy = "drop_new"
        /\ InitWith(c, [msgs |-> WatchMaxMsgs, time |-> WatchMaxTime,
                        watchdog |-> TRUE, stamps |-> FALSE])
        /\ HandlersIdle
        /\ SideIdle

SpecWatch == WatchInit /\ [][WatchNext]_vars

\* One worker on telemetry messages alone: the GPS filter and the store,
\* from a cold start or from a warm start with a stored position
WarmRows ==
    {<<>>} \cup
    {[sn \in {r} |-> [pos |-> 0, satellites |-> Some(sats_min),
                      fix_status |-> Some(fix_min), received_at |-> 0]] :
        r \in Routers}

GpsInit ==
    /\ \E c \in Configs :
          /\ c.worker_count = 1
          /\ c.worker_max_retries = 1
          /\ c.drop_decoded_when_full
          /\ c.drop_decoded_policy = "drop_new"
          /\ InitWith(c, [msgs |-> 0, time |-> GpsMaxTime, watchdog |-> FALSE, stamps |-> FALSE])
    /\ \E b \in BOOLEAN : events_policy = [enable_gps_reject_events |-> b]
    /\ \E t \in WarmRows : gps_latest_filtered = t
    /\ gps_filters = restore_gps_state(gps_latest_filtered)
    /\ GpsIdle
    /\ history_policy = HistoryPolicy(min_interval_sec, TRUE)
    /\ register_catalog = <<>>
    /\ HistIdle
    /\ SideIdle

GpsNext ==
    \/ \E msg \in GpsMessages : GpsDispatch(msg)
    \/ GpsCommit
    \/ GpsFail
    \/ GpsRetry
    \/ GpsTick

SpecGps == GpsInit /\ [][GpsNext]_vars

\* One worker on decoded messages alone: the history policy and the store
HistInit ==
    /\ \E c \in Configs :
          /\ c.worker_count = 1
          /\ c.worker_max_retries = 1
          /\ c.drop_decoded_when_full
          /\ c.drop_decoded_policy = "drop_new"
          /\ InitWith(c, [msgs |-> 0, time |-> HistMaxTime, watchdog |-> FALSE, stamps |-> FALSE])
    /\ events_policy = [enable_gps_reject_events |-> TRUE]
    /\ gps_latest_filtered = <<>>
    /\ gps_filters = restore_gps_state(gps_latest_filtered)
    /\ GpsIdle
    /\ \E m \in {0, min_interval_sec} : \E store \in BOOLEAN :
          history_policy = HistoryPolicy(m, store)
    /\ \E cat \in Catalogs : register_catalog = cat
    /\ HistIdle
    /\ SideIdle

HistNext ==
    \/ \E msg \in DecodedMessages : HistDispatch(msg)
    \/ HistProcess
    \/ HistCommit
    \/ HistFail
    \/ HistRetry
    \/ HistTick

SpecHist == HistInit /\ [][HistNext]_vars

\* One worker on the samples of one analog register, minutes apart: values
\* are in tenths, the policy is tolerance 0.5, min-interval 10 s and
\* heartbeat 900 s, and no transaction fails
TraceMaxMsgs == 5
TraceValues == {1500, 1510, 1520}
TraceGaps == {3, 8, 9, 900}

TracePolicy ==
    [defaults |-> [tolerance_analog |-> 5, min_interval_sec |-> 10,
                   heartbeat_sec |-> 900, store_history |-> TRUE,
                   value_kind |-> "analog"],
     kpi_map |-> <<>>]

\* A decoded message with the one register
TraceMessage(v) ==
    [is_list |-> TRUE,
     registers |-> <<[addr |-> Some(1), value |-> Some(v), raw |-> <<>>,
                      text |-> <<>>, reason |-> <<>>]>>]

\* The next sample arrives `gap` seconds after the one before (the first at
\* the start) and the worker takes it: _handle_decoded up to line 242
TraceDispatch(v, gap) ==
    /\ h_pc = "idle"
    /\ h_n < TraceMaxMsgs
    /\ h_n' = h_n + 1
    /\ h_attempt' = 0
    /\ clock' = IF h_n = 0 THEN clock ELSE clock + gap
    /\ h_msg' = TraceMessage(v)
    /\ h_now' = clock'
    /\ h_staged' = Staged(<<>>, <<>>, last_history_ts)
    /\ h_pc' = "begin"
    /\ h_trace' = Append(h_trace, [at |-> clock', value |-> v])
    /\ UNCHANGED <<conf_vars, shutdown, ing_vars, queue_vars, worker_vars,
                   live_vars, wd_vars, gps_vars, gps_raw_history, side_vars,
                   history_policy, register_catalog, latest_state, history,
                   last_history_ts, h_wake>>

TraceInit ==
    /\ \E c \in Configs :
          /\ c.worker_count = 1
          /\ c.worker_max_retries = 0
          /\ c.drop_decoded_when_full
          /\ c.drop_decoded_policy = "drop_new"
          /\ InitWith(c, [msgs |-> 0, time |-> 0, watchdog |-> FALSE, stamps |-> FALSE])
    /\ events_policy = [enable_gps_reject_events |-> TRUE]
    /\ gps_latest_filtered = <<>>
    /\ gps_filters = restore_gps_state(gps_latest_filtered)
    /\ GpsIdle
    /\ history_policy = TracePolicy
    /\ register_catalog = <<>>
    /\ HistIdle
    /\ SideIdle

TraceNext ==
    \/ \E v \in TraceValues : \E gap \in TraceGaps : TraceDispatch(v, gap)
    \/ HistProcess
    \/ HistCommit

SpecTrace == TraceInit /\ [][TraceNext]_vars

----------------------------------------------------------------------------
(* Retention: retention_loop, _do_cleanup and the three cleanup_<table>    *)
(* calls.  The clock counts hours here.                                    *)

RetMaxRows == 3
RetMaxBatch == 2
RetMaxSweeps == 2
RetMaxTime == 2

\* _do_cleanup cleans the tables in this order
RetTables == <<"gps_raw_history", "history", "events">>
Tables == {RetTables[i] : i \in 1..Len(RetTables)}
\* Ages, in hours, of the rows the store holds when the service starts
RetAges == {1, 60}

RetentionCfgs ==
    [gps_raw_hours : {2}, history_days : {1}, events_days : {2},
     cleanup_interval_hours : {0, 24}, batch_size : 0..RetMaxBatch]

\* make_interval(hours => $1) and make_interval(days => $1), in hours
max_age(table) ==
    CASE table = "gps_raw_history" -> r_cfg.gps_raw_hours
      [] table = "history" -> r_cfg.history_days * 24
      [] table = "events" -> r_cfg.events_days * 24

\* WHERE received_at < now() - make_interval(...)   (created_at for events)
aged(row, now) == row.at < now - max_age(row.table)

\* SELECT id ... WHERE <aged> ORDER BY id LIMIT $2
delete_batch(rows, table, now, batch) ==
    LET old == {r \in rows : r.table = table /\ aged(r, now)}
    IN  {r \in old : Cardinality({q \in old : q.id < r.id}) < batch}

\* cleanup_<table> with one round per call
last_round_AfterOne(n, batch) == TRUE

\* if n < batch: break
last_round(n, batch) == n < batch

RetIndex(table) == CHOOSE i \in 1..Len(RetTables) : RetTables[i] = table

\* retention_loop wakes and _do_cleanup makes its first call
RetBegin ==
    /\ r_pc = "sleep"
    /\ r_sweeps < RetMaxSweeps
    /\ clock >= r_wake
    /\ r_sweeps' = r_sweeps + 1
    /\ r_pc' = RetTables[1]
    /\ r_total' = 0
    /\ r_counts' = <<>>
    /\ r_start' = r_rows
    /\ r_from' = clock
    /\ r_turn' = 0
    /\ UNCHANGED <<r_cfg, r_rows, r_done, r_wake>>

\* One turn of the while loop of cleanup_<table>: a DELETE, then the test;
\* after the last table _do_cleanup returns and retention_loop sleeps
RetRound ==
    /\ r_pc # "sleep"
    /\ LET gone == delete_batch(r_rows, r_pc, clock, r_cfg.batch_size)
           n == Cardinality(gone)
           i == RetIndex(r_pc)
       IN  /\ r_rows' = r_rows \ gone
           /\ IF last_round(n, r_cfg.batch_size)
              THEN /\ r_counts' = Append(r_counts, r_total + n)
                   /\ r_total' = 0
                   /\ r_turn' = 0
                   /\ r_start' = r_rows'
                   /\ IF i < Len(RetTables)
                      THEN /\ r_pc' = RetTables[i + 1]
                           /\ UNCHANGED <<r_done, r_wake>>
                      ELSE /\ r_pc' = "sleep"
                           /\ r_done' = Append(r_done, [from |-> r_from, at |-> clock,
                                                        rows |-> r_rows',
                                                        counts |-> r_counts'])
                           /\ r_wake' = clock + r_cfg.cleanup_interval_hours
              ELSE /\ r_total' = r_total + n
                   /\ r_turn' = 1 - r_turn
                   /\ UNCHANGED <<r_pc, r_counts, r_start, r_done, r_wake>>
    /\ UNCHANGED <<r_cfg, r_sweeps, r_from>>

\* The pool or a DELETE raises: retention_loop logs it and sleeps
RetFail ==
    /\ r_pc # "sleep"
    /\ r_pc' = "sleep"
    /\ r_total' = 0
    /\ r_turn' = 0
    /\ r_wake' = clock + r_cfg.cleanup_interval_hours
    /\ UNCHANGED <<r_cfg, r_rows, r_counts, r_sweeps, r_start, r_done, r_from>>

\* A day passes
RetTick ==
    /\ clock < RetMaxTime * 24
    /\ clock' = clock + 24
    /\ UNCHANGED ret_vars

beside_ret ==
    <<pipe_vars, live_vars, wd_vars, gps_vars, hist_vars, trace_vars, conn_vars,
      order_vars, decide_vars, race_vars>>

RetInit ==
    /\ \E c \in Configs :
          /\ c.worker_count = 1
          /\ c.worker_max_retries = 0
          /\ c.drop_decoded_when_full
          /\ c.drop_decoded_policy = "drop_new"
          /\ InitWith(c, [msgs |-> 0, time |-> 0, watchdog |-> FALSE, stamps |-> FALSE])
    /\ HandlersIdle
    /\ r_cfg \in RetentionCfgs
    /\ \E n \in 0..RetMaxRows : \E f \in [1..n -> (Tables \X RetAges)] :
          r_rows = {[id |-> i, table |-> f[i][1], at |-> 0 - f[i][2]] : i \in 1..n}
    /\ r_pc = "sleep"
    /\ r_total = 0
    /\ r_counts = <<>>
    /\ r_sweeps = 0
    /\ r_start = {}
    /\ r_done = <<>>
    /\ r_wake = 0
    /\ r_from = 0
    /\ r_turn = 0
    /\ ConnIdle
    /\ DecideIdle
    /\ RaceIdle

RetNext ==
    \/ RetBegin /\ UNCHANGED <<clock, beside_ret>>
    \/ RetRound /\ UNCHANGED <<clock, beside_ret>>
    \/ RetFail /\ UNCHANGED <<clock, beside_ret>>
    \/ RetTick /\ UNCHANGED beside_ret

SpecRet == RetInit /\ [][RetNext]_vars

\* The event loop keeps running a cleanup call that is in progress
SpecRetFair == SpecRet /\ WF_vars(RetRound /\ UNCHANGED <<clock, beside_ret>>)

----------------------------------------------------------------------------
(* The broker connection: the reconnect loop of _mqtt_ingest_loop.  The    *)
(* messages it receives while connected are the pipeline's; here only the  *)
(* connection and the delay are followed.                                  *)

ConnMaxFails == 4

MinDelays == {0, 1, 2, 5}
MaxDelays == {1, 3, 4}
MqttCfgs == [reconnect_min_delay : MinDelays, reconnect_max_delay : MaxDelays]

min(a, b) == IF a <= b THEN a ELSE b

\* The doubling without the cap
next_delay_Uncapped(d) == d * 2

\* delay = min(delay * 2, mc.reconnect_max_delay)
next_delay(d) == min(d * 2, mqtt.reconnect_max_delay)

\* async with aiomqtt.Client(...) as client: the broker accepts the connection
ConnConnect ==
    /\ c_pc = "connect"
    /\ c_pc' = "subscribe"
    /\ UNCHANGED <<mqtt, delay, c_fails, c_slept, c_ups>>

\* Both subscriptions are acknowledged: connected, the delay starts over
ConnSubscribe ==
    /\ c_pc = "subscribe"
    /\ c_pc' = "messages"
    /\ delay' = mqtt.reconnect_min_delay
    /\ c_fails' = 0
    /\ c_ups' = c_ups + 1
    /\ UNCHANGED <<mqtt, c_slept>>

\* aiomqtt.MqttError while connecting, subscribing or reading messages:
\* the loop sleeps for `delay`
ConnFail ==
    /\ c_pc \in {"connect", "subscribe", "messages"}
    /\ Len(c_slept) < ConnMaxFails
    /\ c_pc' = "sleep"
    /\ c_fails' = c_fails + 1
    /\ c_slept' = Append(c_slept, [k |-> c_fails', delay |-> delay])
    /\ UNCHANGED <<mqtt, delay, c_ups>>

\* The sleep ends; the next delay is computed and the loop connects again
ConnWake ==
    /\ c_pc = "sleep"
    /\ c_pc' = "connect"
    /\ delay' = next_delay(delay)
    /\ UNCHANGED <<mqtt, c_fails, c_slept, c_ups>>

beside_conn ==
    <<pipe_vars, live_vars, wd_vars, clock, gps_vars, hist_vars, trace_vars, ret_vars,
      order_vars, decide_vars, race_vars>>

ConnInit ==
    /\ \E c \in Configs :
          /\ c.worker_count = 1
          /\ c.worker_max_retries = 0
          /\ c.drop_decoded_when_full
          /\ c.drop_decoded_policy = "drop_new"
          /\ InitWith(c, [msgs |-> 0, time |-> 0, watchdog |-> FALSE, stamps |-> FALSE])
    /\ HandlersIdle
    /\ RetIdle
    /\ DecideIdle
    /\ RaceIdle
    /\ mqtt \in MqttCfgs
    /\ c_pc = "connect"
    /\ delay = mqtt.reconnect_min_delay
    /\ c_fails = 0
    /\ c_slept = <<>>
    /\ c_ups = 0

ConnNext ==
    \/ ConnConnect /\ UNCHANGED beside_conn
    \/ ConnSubscribe /\ UNCHANGED beside_conn
    \/ ConnFail /\ UNCHANGED beside_conn
    \/ ConnWake /\ UNCHANGED beside_conn

SpecConn == ConnInit /\ [][ConnNext]_vars

----------------------------------------------------------------------------
(* history_policy.should_write_history on its own: one call, its arguments *)
(* drawn from every combination of absent and present values.              *)

DecideMaxTime == 4

\* _RegParams
DecideParams ==
    [tolerance : {<<>>, Some(tolerance_analog)},
     min_interval_sec : {0, min_interval_sec},
     heartbeat_sec : {heartbeat_sec},
     store_history : BOOLEAN]

\* new_value, new_raw, new_text, new_reason and the prev_ ones: a value at,
\* within, or beyond the tolerance of another, or None
DecideSamples ==
    [value : {<<>>, Some(1500), Some(1500 + tolerance_analog),
              Some(1501 + tolerance_analog)},
     raw : {<<>>, Some(1)},
     text : {<<>>, Some("a")},
     reason : {<<>>, Some("r")}]

DecideInputs ==
    [params : DecideParams, new : DecideSamples, prev : DecideSamples,
     last_history_ts : {<<>>, Some(0)}, now : 0..DecideMaxTime]

\* The call is made and returns
Decide ==
    /\ d_out = <<>>
    /\ d_out' = <<should_write_history(d_in.params, d_in.new, d_in.prev,
                                       d_in.last_history_ts, d_in.now)>>
    /\ UNCHANGED d_in

beside_decide ==
    <<pipe_vars, live_vars, wd_vars, clock, gps_vars, hist_vars, trace_vars, ret_vars,
      conn_vars, order_vars, race_vars>>

DecideInit ==
    /\ \E c \in Configs :
          /\ c.worker_count = 1
          /\ c.worker_max_retries = 0
          /\ c.drop_decoded_when_full
          /\ c.drop_decoded_policy = "drop_new"
          /\ InitWith(c, [msgs |-> 0, time |-> 0, watchdog |-> FALSE,
                          stamps |-> FALSE])
    /\ HandlersIdle
    /\ RetIdle
    /\ ConnIdle
    /\ RaceIdle
    /\ d_in \in DecideInputs
    /\ d_out = <<>>

DecideNext == Decide /\ UNCHANGED beside_decide

SpecDecide == DecideInit /\ [][DecideNext]_vars

TypeOK ==
    /\ Len(q_telemetry) <= cfg.telemetry_queue_maxsize
    /\ Len(q_decoded) <= cfg.decoded_queue_maxsize
    /\ unfinished["telemetry"] >= 0
    /\ unfinished["decoded"] >= 0

----------------------------------------------------------------------------
(* Steps, as the claims name them *)

\* The ingest loop builds an item from the head of the inbox and puts it
ReceiveStep == received' # received
ReceivedItem ==
    [topic |-> Head(inbox).topic, payload |-> Head(inbox).payload,
     received_at |-> IF lim.stamps THEN received["telemetry"] + received["decoded"] + 1
                     ELSE 0,
     kind |-> KindOf(Head(inbox).topic)]

\* Worker w dequeues an item from the queue `src`
TakeStep(w, src) ==
    /\ wpc[w] \in {"get", "wait"}
    /\ wpc'[w] = "dispatch"
    /\ wsrc'[w] = src

\* Worker w lets go of the item it holds (done, dropped or cancelled)
ReleaseStep(w) == witem[w] # NoItem /\ witem'[w] = NoItem

HeldFrom(k) == {w \in Workers : witem[w] # NoItem /\ wsrc[w] = k}

Pending(k) ==
    IF ing_pc \in {"put_wait", "cancelled"} /\ ing_item.kind = k THEN 1 ELSE 0

----------------------------------------------------------------------------
(* C1: telemetry has strict priority at the worker: whenever a worker      *)
(* takes an item from the decoded queue, the telemetry queue is empty.     *)

C1_StrictPriority ==
    [][\A w \in Workers : TakeStep(w, "decoded") => q_telemetry = <<>>]_vars

----------------------------------------------------------------------------
(* C2: a received telemetry message is never discarded by the put policy:  *)
(* the put enqueues it at once, or leaves the ingest loop blocked holding   *)
(* it until a slot is free and then enqueues it; the telemetry queue never *)
(* holds more than telemetry_queue_maxsize items.                          *)

C2_Accounted ==
    /\ Len(q_telemetry) <= cfg.telemetry_queue_maxsize
    /\ dropped["telemetry"] = 0
    /\ received["telemetry"] =
           Len(q_telemetry) + ntaken["telemetry"] + Pending("telemetry")

C2_TelemetryNeverDropped ==
    [][/\ C2_Accounted
       /\ C2_Accounted'
       /\ (ReceiveStep /\ ReceivedItem.kind = "telemetry") =>
             \/ q_telemetry' = Append(q_telemetry, ReceivedItem)
             \/ /\ Len(q_telemetry) = cfg.telemetry_queue_maxsize
                /\ q_telemetry' = q_telemetry
                /\ ing_pc' = "put_wait"
                /\ ing_item' = ReceivedItem
       /\ (ing_pc = "put_wait" /\ ing_item.kind = "telemetry" /\ ~shutdown') =>
             \/ ing_pc' = "put_wait" /\ ing_item' = ing_item /\ ~ReceiveStep
             \/ /\ Len(q_telemetry) < cfg.telemetry_queue_maxsize
                /\ q_telemetry' = Append(q_telemetry, ing_item)
                /\ ing_pc' = "recv"
      ]_vars

\* The ingest loop is blocked in a put on the full telemetry queue
C2_Witness ==
    /\ ing_pc = "put_wait"
    /\ ing_item.kind = "telemetry"
    /\ Len(q_telemetry) = cfg.telemetry_queue_maxsize

----------------------------------------------------------------------------
(* C3: with drop_decoded_when_full and drop_oldest, a put on a full        *)
(* decoded queue removes exactly the head item, which no worker gets,      *)
(* appends the new item at the tail, leaves the queue full and does not    *)
(* block the ingest loop.                                                  *)

FullDecodedPut ==
    /\ ReceiveStep
    /\ ReceivedItem.kind = "decoded"
    /\ Len(q_decoded) = cfg.decoded_queue_maxsize

C3_DropOldest ==
    [][(/\ FullDecodedPut
        /\ cfg.drop_decoded_when_full
        /\ cfg.drop_decoded_policy = "drop_oldest") =>
           /\ q_decoded' = Append(Tail(q_decoded), ReceivedItem)
           /\ Len(q_decoded') = cfg.decoded_queue_maxsize
           /\ ing_pc' = "recv"
           /\ dropped' = [dropped EXCEPT !["decoded"] = @ + 1]
           /\ unfinished' = unfinished
           /\ UNCHANGED worker_vars
      ]_vars

\* The policy has dropped an oldest item, and the two it chose between differed
C3_Witness ==
    /\ cfg.drop_decoded_when_full
    /\ cfg.drop_decoded_policy = "drop_oldest"
    /\ dropped["decoded"] > 0
    /\ Len(q_decoded) = cfg.decoded_queue_maxsize
    /\ Len(q_decoded) > 1
    /\ q_decoded[1] # q_decoded[Len(q_decoded)]

----------------------------------------------------------------------------
(* C4: on a full decoded queue, drop_new discards the incoming item and    *)
(* leaves the queue as it was; with drop_decoded_when_full = false nothing *)
(* is discarded, the ingest loop blocks until a slot is free and then the  *)
(* item is enqueued.                                                       *)

C4_DropNewOrBlock ==
    [][/\ (/\ FullDecodedPut
           /\ cfg.drop_decoded_when_full
           /\ cfg.drop_decoded_policy = "drop_new") =>
              /\ q_decoded' = q_decoded
              /\ ing_pc' = "recv"
              /\ dropped' = [dropped EXCEPT !["decoded"] = @ + 1]
              /\ unfinished' = unfinished
       /\ (FullDecodedPut /\ ~cfg.drop_decoded_when_full) =>
              /\ q_decoded' = q_decoded
              /\ ing_pc' = "put_wait"
              /\ ing_item' = ReceivedItem
              /\ dropped' = dropped
       /\ (ing_pc = "put_wait" /\ ing_item.kind = "decoded" /\ ~shutdown') =>
              \/ ing_pc' = "put_wait" /\ ing_item' = ing_item /\ ~ReceiveStep
              \/ /\ Len(q_decoded) < cfg.decoded_queue_maxsize
                 /\ q_decoded' = Append(q_decoded, ing_item)
                 /\ ing_pc' = "recv"
       /\ ~cfg.drop_decoded_when_full => dropped'["decoded"] = 0
      ]_vars

\* The ingest loop is blocked in a put on the full decoded queue
C4_Witness ==
    /\ ~cfg.drop_decoded_when_full
    /\ ing_pc = "put_wait"
    /\ ing_item.kind = "decoded"
    /\ Len(q_decoded) = cfg.decoded_queue_maxsize

\* drop_new has discarded an incoming item
C4_WitnessDropNew ==
    /\ cfg.drop_decoded_when_full
    /\ cfg.drop_decoded_policy = "drop_new"
    /\ dropped["decoded"] > 0

----------------------------------------------------------------------------
(* C5: for every dequeued item the dispatcher is invoked at most           *)
(* worker_max_retries + 1 times, again only after every earlier attempt    *)
(* raised; after exhaustion the item is dropped and the worker goes on;    *)
(* task_done is called exactly once for the item, on the queue it came     *)
(* from, whatever the outcome (success, exhaustion or cancellation).       *)

\* _unfinished_tasks counts what is queued and what workers hold
C5_DoneOnce ==
    \A k \in Kinds : unfinished[k] = Len(Queue(k)) + Cardinality(HeldFrom(k))

C5_RetryAndDone ==
    [][/\ C5_DoneOnce
       /\ C5_DoneOnce'
       /\ \A w \in Workers :
            /\ wcalls'[w] <= cfg.worker_max_retries + 1
            /\ wcalls'[w] = wcalls[w] + 1 => wcalls[w] = attempt[w]
            /\ (wpc[w] = "txn" /\ wpc'[w] = "sleep") =>
                   /\ attempt'[w] = attempt[w] + 1
                   /\ attempt'[w] <= cfg.worker_max_retries
            /\ (wpc[w] = "txn" /\ wpc'[w] # "txn"
                  /\ attempt[w] = cfg.worker_max_retries) =>
                   ReleaseStep(w) /\ wpc'[w] \in {"get", "exited"}
            /\ (wpc[w] = "dispatch" /\ ~NeedsStore(witem[w])) => ReleaseStep(w)
      ]_vars

\* A worker is in the last attempt its retries allow
C5_Witness ==
    \E w \in Workers :
        /\ wpc[w] = "txn"
        /\ cfg.worker_max_retries > 0
        /\ attempt[w] = cfg.worker_max_retries
        /\ wcalls[w] = cfg.worker_max_retries + 1

----------------------------------------------------------------------------
(* C7: liveness-map entries are inserted or refreshed only by the ingest   *)
(* loop at message reception: no step of a worker (dispatch, retries       *)
(* included) and no step of the watchdog changes either liveness map.      *)

C7_OnlyIngestWrites ==
    [][(last_seen' # last_seen \/ panel_last_seen' # panel_last_seen)
          => ReceiveStep]_vars

----------------------------------------------------------------------------
(* C10: every received GPS point has exactly one gps_raw_history row once  *)
(* its processing has ended, never zero and never two, also when the store *)
(* fails and the worker retries the message.                               *)

IsGps(item) == IsTelemetryTopic(item.topic) /\ item.payload = "gps"

RowsFromGpsOnly ==
    gps_raw_history' # gps_raw_history =>
        \E w \in Workers : ReleaseStep(w) /\ IsGps(witem[w])

C10_ExactlyOneRow ==
    [][/\ RowsFromGpsOnly
       /\ \A w \in Workers :
            (ReleaseStep(w) /\ IsGps(witem[w])) =>
                Len(gps_raw_history') = Len(gps_raw_history) + 1
      ]_vars

(* C10 as amended: a GPS point has at most one row once its processing has *)
(* ended: exactly one, its router's, unless the last attempt the retries   *)
(* allow has failed or the worker was cancelled, and then none.            *)
C10_AtMostOneRow ==
    [][/\ RowsFromGpsOnly
       /\ \A w \in Workers :
            (ReleaseStep(w) /\ IsGps(witem[w])) =>
                \/ gps_raw_history' =
                       Append(gps_raw_history, [router_sn |-> witem[w].topic.sn])
                \/ /\ gps_raw_history' = gps_raw_history
                   /\ shutdown' \/ attempt[w] = cfg.worker_max_retries
      ]_vars

\* A GPS point was stored by a retry: two dispatch calls, one row
C10_Witness ==
    /\ Len(gps_raw_history) = 1
    /\ received["telemetry"] = 1
    /\ \E w \in Workers : wcalls[w] = 2 /\ wpc[w] \in {"get", "wait"}

----------------------------------------------------------------------------
(* Steps of the watchdog, as the claims about it speak of them *)

Entities == DOMAIN last_class'

\* The state the watchdog remembers for an entity, online when it has none
Remembered(rs, ps, e) ==
    IF e[1] = "router" THEN GetOr(rs, e[2], "online")
    ELSE GetOr(ps, <<e[2], e[3]>>, "online")
State(e) == Remembered(router_state, panel_state, e)
StateAfter(e) == Remembered(router_state', panel_state', e)

\* The liveness-map entry of an entity
SeenAt(e) ==
    IF e[1] = "router" THEN last_seen[e[2]] ELSE panel_last_seen[<<e[2], e[3]>>]
InMaps(e) ==
    IF e[1] = "router" THEN e[2] \in DOMAIN last_seen
    ELSE <<e[2], e[3]>> \in DOMAIN panel_last_seen

\* _check starts in this step
SweepStep ==
    /\ wd_pc = "sleep"
    /\ wd_pc' \in {"r_emit", "p_emit"} \/ wd_wake' # wd_wake

\* _check classifies entity e in this step
ClassifiedInStep(e) ==
    /\ e \in DOMAIN last_class'
    /\ last_class'[e].cur
    /\ SweepStep \/ e \notin DOMAIN last_class \/ ~last_class[e].cur

\* An event of type ty for e is inserted in this step
EventStep(e, ty) ==
    /\ Len(events') = Len(events) + 1
    /\ events'[Len(events')].entity = e
    /\ events'[Len(events')].type = ty

\* The latest classification of e, online when it has none
LastNew(e) == IF e \in DOMAIN last_class THEN last_class[e].new ELSE "online"

----------------------------------------------------------------------------
(* C6: an entity whose messages keep reaching the subscription at          *)
(* intervals shorter than its offline threshold is never classified        *)
(* offline by the watchdog, however slow the store and the workers are.    *)

C6_LiveNeverOffline ==
    [][\A e \in Entities :
          (ClassifiedInStep(e) /\ e \in DOMAIN live /\ live[e]) =>
              last_class'[e].new # "offline"]_vars

----------------------------------------------------------------------------
(* C8: exactly one *_offline event per entity per crossing of the offline  *)
(* threshold: no repeat while the entity stays offline, none lost; and an  *)
(* *_online event only after recovery, in a sweep that classifies the      *)
(* entity online again.                                                    *)

\* An offline event is the remembered transition into offline, and back
C8_OfflineOnce(e) ==
    /\ EventStep(e, "offline") => State(e) # "offline" /\ StateAfter(e) = "offline"
    /\ (State(e) # "offline" /\ StateAfter(e) = "offline") => EventStep(e, "offline")

\* An online event is emitted only for an entity the sweep in progress
\* classifies online, and that was not online before
C8_OnlineAfterRecovery(e) ==
    /\ EventStep(e, "online") =>
          /\ last_class[e].cur /\ last_class[e].new = "online"
          /\ State(e) \in {"offline", "stale"}
          /\ StateAfter(e) = "online"
    /\ (State(e) = "offline" /\ StateAfter(e) # "offline") => EventStep(e, "online")

\* The sweep finds e no longer offline
LeavesOffline(e) ==
    /\ ClassifiedInStep(e)
    /\ LastNew(e) = "offline"
    /\ last_class'[e].new # "offline"

----------------------------------------------------------------------------
(* C9: on every sweep each entity in the liveness maps is classified       *)
(* offline if age >= offline_sec, else stale if age >= stale_sec, else     *)
(* online, against a remembered previous state that starts as online; an   *)
(* event is emitted iff the state changed and (new = offline, or new =     *)
(* online with previous in {offline, stale}); a transition into stale      *)
(* emits no event but is remembered.                                       *)

\* The table of the specification
Expected(age, e) ==
    IF age >= OfflineSec(e[1]) THEN "offline"
    ELSE IF age >= StaleSec(e[1]) THEN "stale"
    ELSE "online"

MustEmit(prev, new) ==
    /\ new # prev
    /\ new = "offline" \/ (new = "online" /\ prev \in {"offline", "stale"})

\* The classification of e in this step follows the table
C9_Classified(e) ==
    LET c == last_class'[e]
    IN /\ SweepStep => c.age = clock - SeenAt(e)
       /\ c.new = Expected(c.age, e)
       /\ c.prev = State(e)
       /\ MustEmit(c.prev, c.new) <=> c.out = "pending"
       /\ c.out = "pending" => StateAfter(e) = c.prev
       /\ c.out # "pending" => StateAfter(e) = c.new
       /\ (c.new = "stale" /\ c.prev # "stale") => c.out = "silent"

\* The event the sweep is suspended at is inserted, and nothing else is
C9_Emitted ==
    /\ events' # events =>
          /\ wd_pc \in {"r_emit", "p_emit"}
          /\ \E e \in DOMAIN last_class :
                /\ last_class[e].cur /\ last_class[e].out = "pending"
                /\ last_class'[e].out = "emitted"
                /\ events' = Append(events,
                       [entity |-> e, prev |-> last_class[e].prev,
                        new |-> last_class[e].new,
                        type |-> IF last_class[e].new = "offline"
                                 THEN "offline" ELSE "online"])
                /\ StateAfter(e) = last_class[e].new
    /\ \A e \in DOMAIN last_class :
          (last_class[e].out = "pending" /\ last_class'[e].out # "pending") =>
              \/ events' # events
              \/ last_class'[e].out = "failed" /\ StateAfter(e) = State(e)

\* Every entity in the maps is classified by every sweep
C9_AllClassified ==
    \A e \in Entities :
        (InMaps(e) /\ wd_pc # "sleep" /\ wd_pc' = "sleep") => last_class'[e].cur

\* No pending event is ever given up
C9_NoneFailed == \A e \in Entities : last_class'[e].out # "failed"

C9_SweepTable ==
    [][/\ \A e \in Entities : ClassifiedInStep(e) => C9_Classified(e)
       /\ C9_Emitted
       /\ C9_AllClassified
       /\ C9_NoneFailed
      ]_vars

(* C9 as amended: the same for each entity a sweep reaches; a sweep ends   *)
(* at the first event insert that fails, the entity's remembered state is  *)
(* then left as it was and the entities after it are not classified.       *)
C9_SweepTableUntilFailure ==
    [][/\ \A e \in Entities : ClassifiedInStep(e) => C9_Classified(e)
       /\ C9_Emitted
       /\ \A e \in Entities :
             (InMaps(e) /\ wd_pc' = "sleep" /\ (SweepStep \/ wd_pc # "sleep")) =>
                 \/ last_class'[e].cur
                 \/ \E f \in Entities : last_class'[f].cur /\ last_class'[f].out = "failed"
      ]_vars

\* A sweep found an entity stale and remembered it without an event, and a
\* later one found it offline and emitted the event
C9_Witness ==
    \E e \in DOMAIN last_class :
        /\ last_class[e].cur
        /\ last_class[e].prev = "stale"
        /\ last_class[e].new = "offline"
        /\ last_class[e].out = "emitted"
        /\ State(e) = "offline"

----------------------------------------------------------------------------
(* Steps of the telemetry handler, as the claims about it speak of them *)

\* The quality gate of check lets the point through
QualityPasses(pt) ==
    /\ IsNone(pt.satellites) \/ pt.satellites[1] >= sats_min
    /\ IsNone(pt.fix_status) \/ pt.fix_status[1] >= fix_min

\* check is called for a point: when its message is taken, or at a retry
FirstCheckStep == g_pc = "idle" /\ g_pc' = "txn"
RetryCheckStep == g_pc = "sleep" /\ g_pc' = "txn"

\* The transaction of the point in hand commits
GpsCommitStep == g_pc = "txn" /\ g_pc' = "idle" /\ g_attempt' = g_attempt

\* The router of the point in hand, its filter and its stored position
Sn == g_msg.router_sn
HasLatest(table, sn) == sn \in DOMAIN table

\* The step inserts exactly one gps_raw_history row, of the point in hand
OneRawRow(accepted) ==
    /\ Len(gps_raw_history') = Len(gps_raw_history) + 1
    /\ SubSeq(gps_raw_history', 1, Len(gps_raw_history)) = gps_raw_history
    /\ LET row == gps_raw_history'[Len(gps_raw_history')]
       IN /\ row.router_sn = Sn
          /\ row.pos = g_pt.pos
          /\ row.accepted = accepted

----------------------------------------------------------------------------
(* C11: the first quality-passing point of a router whose filter has no    *)
(* last_accepted is accepted and becomes last_accepted; when its           *)
(* transaction commits, gps_latest_filtered holds the router's row with    *)
(* the point's coordinates and one raw row with accepted = true is added.  *)

C11_FirstPoint ==
    [][/\ (/\ FirstCheckStep
           /\ g_msg'.gps
           /\ gps_filters[g_msg'.router_sn].last_accepted = <<>>
           /\ QualityPasses(g_pt')) =>
              /\ g_verdict' = GpsVerdict(TRUE, None)
              /\ gps_filters'[g_msg'.router_sn].last_accepted = <<g_pt'>>
       /\ (/\ GpsCommitStep
           /\ g_pre.last_accepted = <<>>
           /\ QualityPasses(g_pt)) =>
              /\ OneRawRow(TRUE)
              /\ HasLatest(gps_latest_filtered', Sn)
              /\ gps_latest_filtered'[Sn].pos = g_pt.pos
      ]_vars

\* The first point of a router was stored, at the first attempt
C11_Witness ==
    /\ g_pc = "idle"
    /\ g_n = 1
    /\ g_msg.gps
    /\ g_attempt = 0
    /\ g_pre.last_accepted = <<>>
    /\ Len(gps_raw_history) = 1
    /\ gps_raw_history[1].accepted
    /\ HasLatest(gps_latest_filtered, Sn)
    /\ gps_latest_filtered[Sn].pos = g_pt.pos
    /\ gps_filters[Sn].last_accepted = <<g_pt>>

----------------------------------------------------------------------------
(* C12: for every point P received while the filter's last_accepted is P0, *)
(* if P passes the quality gate and dist(P0, P) < deadband_m then the      *)
(* verdict is accepted and processing P does not modify                    *)
(* gps_latest_filtered, also when points were jump-rejected in between.    *)

\* The point in hand passed the quality gate within the deadband of the
\* last_accepted the filter `flt` holds
InDeadband(flt, pt) ==
    /\ flt.last_accepted # <<>>
    /\ QualityPasses(pt)
    /\ haversine_m(flt.last_accepted[1].pos, pt.pos) < deadband_m

\* check accepts a point within the deadband and keeps last_accepted
DeadbandAccepted ==
    (/\ FirstCheckStep
     /\ InDeadband(gps_filters[g_msg'.router_sn], g_pt')) =>
        /\ g_verdict' = GpsVerdict(TRUE, None)
        /\ gps_filters'[g_msg'.router_sn].last_accepted =
               gps_filters[g_msg'.router_sn].last_accepted

----------------------------------------------------------------------------
(* C13: for every sequence of points with satellites < sats_min, each      *)
(* check returns rejected with reason low_sats, and the filter state       *)
(* (last_accepted and confirm buffer) is the same after as before.         *)

\* check is called, at the first attempt or at a retry, for a point with
\* too few satellites
LowSatsCheckStep ==
    /\ FirstCheckStep \/ RetryCheckStep
    /\ ~IsNone(g_pt'.satellites)
    /\ g_pt'.satellites[1] < sats_min

C13_LowSatsKeepsFilter ==
    [][LowSatsCheckStep =>
          /\ g_verdict' = GpsVerdict(FALSE, "low_sats")
          /\ gps_filters' = gps_filters
      ]_vars

(* C13 as amended: each check of such a point returns rejected with reason *)
(* low_sats, leaves last_accepted as it was and leaves the confirm buffer  *)
(* empty: a move confirmation in progress is dropped by the first of them. *)
C13_LowSatsClearsBuffer ==
    [][LowSatsCheckStep =>
          /\ g_verdict' = GpsVerdict(FALSE, "low_sats")
          /\ gps_filters' =
                [gps_filters EXCEPT ![g_msg'.router_sn] =
                    [last_accepted |-> @.last_accepted, confirm |-> <<>>]]
      ]_vars

\* A point with too few satellites came while a jump was waiting for its
\* confirmation: the buffer is empty, last_accepted is as before
C13_Witness ==
    /\ g_pc = "txn"
    /\ g_verdict = GpsVerdict(FALSE, "low_sats")
    /\ g_attempt = 0
    /\ g_pre.confirm # <<>>
    /\ g_pre.last_accepted # <<>>
    /\ gps_filters[Sn].confirm = <<>>
    /\ gps_filters[Sn].last_accepted = g_pre.last_accepted

----------------------------------------------------------------------------
(* C14: processing a rejected point (low_sats, bad_fix, jump_distance or   *)
(* jump_speed) never inserts into or updates gps_latest_filtered: the row  *)
(* of a router always holds the coordinates of a point stored with         *)
(* accepted = true, or is the row of the warm start.                       *)

\* The row is the one a warm start found in the table
IsWarmRow(sn, row) == \E t \in WarmRows : HasLatest(t, sn) /\ t[sn] = row

\* Some gps_raw_history row of the router is an accepted point at `pos`
StoredAccepted(rows, sn, pos) ==
    \E i \in 1..Len(rows) :
        /\ rows[i].router_sn = sn
        /\ rows[i].accepted
        /\ rows[i].pos = pos

LatestFromAccepted(table, rows) ==
    \A sn \in DOMAIN table :
        IsWarmRow(sn, table[sn]) \/ StoredAccepted(rows, sn, table[sn].pos)

C14_RejectedNeverLatest ==
    [][/\ (GpsCommitStep /\ ~g_verdict.accepted) =>
              /\ g_verdict.reject_reason \in
                     {"low_sats", "bad_fix", "jump_distance", "jump_speed"}
              /\ gps_latest_filtered' = gps_latest_filtered
       /\ gps_latest_filtered' # gps_latest_filtered =>
              /\ GpsCommitStep
              /\ g_verdict.accepted
              /\ DOMAIN gps_latest_filtered' = DOMAIN gps_latest_filtered \cup {Sn}
              /\ \A sn \in DOMAIN gps_latest_filtered' :
                    IF sn = Sn THEN gps_latest_filtered'[sn].pos = g_pt.pos
                    ELSE gps_latest_filtered'[sn] = gps_latest_filtered[sn]
       /\ LatestFromAccepted(gps_latest_filtered', gps_raw_history')
      ]_vars

\* A jump was rejected and stored; the router's row is still elsewhere
C14_Witness ==
    /\ g_pc = "idle"
    /\ g_msg.gps
    /\ g_verdict.reject_reason \in {"jump_distance", "jump_speed"}
    /\ Len(gps_raw_history) = g_n
    /\ ~gps_raw_history[g_n].accepted
    /\ gps_raw_history[g_n].pos = g_pt.pos
    /\ HasLatest(gps_latest_filtered, Sn)
    /\ gps_latest_filtered[Sn].pos # g_pt.pos
    /\ LatestFromAccepted(gps_latest_filtered, gps_raw_history)

----------------------------------------------------------------------------
(* C15: for every accepted point, once its transaction commits, its        *)
(* gps_raw_history row has accepted = true and gps_latest_filtered holds,  *)
(* for its router, exactly this point or a position at distance            *)
(* < deadband_m from it.                                                   *)

\* The stored row is the point itself
IsPoint(row, pt) ==
    /\ row.pos = pt.pos
    /\ row.satellites = pt.satellites
    /\ row.fix_status = pt.fix_status

C15_AcceptedStored ==
    [][(GpsCommitStep /\ g_verdict.accepted) =>
          /\ OneRawRow(TRUE)
          /\ HasLatest(gps_latest_filtered', Sn)
          /\ \/ IsPoint(gps_latest_filtered'[Sn], g_pt)
             \/ /\ gps_latest_filtered' = gps_latest_filtered
                /\ haversine_m(gps_latest_filtered'[Sn].pos, g_pt.pos) < deadband_m
      ]_vars

\* The router has moved: an accepted point outside the deadband of the last
\* one was stored and is now the router's row
C15_Witness ==
    /\ g_pc = "idle"
    /\ g_msg.gps
    /\ g_verdict.accepted
    /\ g_pre.last_accepted # <<>>
    /\ haversine_m(g_pre.last_accepted[1].pos, g_pt.pos) >= deadband_m
    /\ Len(gps_raw_history) = g_n
    /\ gps_raw_history[g_n].accepted
    /\ gps_raw_history[g_n].pos = g_pt.pos
    /\ HasLatest(gps_latest_filtered, Sn)
    /\ IsPoint(gps_latest_filtered[Sn], g_pt)

----------------------------------------------------------------------------
(* C16: move confirmation.  From a filter with last_accepted set and an    *)
(* empty confirm buffer, confirm_points consecutive quality-passing points *)
(* that are each beyond the jump gate from last_accepted and within        *)
(* confirm_radius_m of the first of them are rejected but for the last,    *)
(* which is accepted; afterwards last_accepted and gps_latest_filtered are *)
(* the last point and the confirm buffer is empty.                         *)

\* The point is beyond the jump gate from last_accepted: too far, or too fast
BeyondGate(last, pt) ==
    LET dist == haversine_m(last.pos, pt.pos)
        dt == IF pt.received_at - last.received_at <= 0 THEN 1
              ELSE pt.received_at - last.received_at
    IN /\ dist >= deadband_m
       /\ dist > max_jump_m \/ dist * 36 > max_speed_kmh * dt * 10

\* The point goes on the sequence the buffer of `flt` holds: it passes the
\* quality gate beyond the jump gate, within the radius of the first
Confirming(flt, pt) ==
    /\ flt.last_accepted # <<>>
    /\ QualityPasses(pt)
    /\ BeyondGate(flt.last_accepted[1], pt)
    /\ Len(flt.confirm) < confirm_points
    /\ \A i \in 1..Len(flt.confirm) :
          /\ QualityPasses(flt.confirm[i])
          /\ haversine_m(flt.confirm[1].pos, flt.confirm[i].pos) <= confirm_radius_m
    /\ flt.confirm # <<>> =>
          haversine_m(flt.confirm[1].pos, pt.pos) <= confirm_radius_m

----------------------------------------------------------------------------
(* C17: processing a rejected point inserts exactly one event of type      *)
(* gps_jump_rejected, with payload lat, lon, reject_reason and satellites, *)
(* in the transaction of its raw row when enable_gps_reject_events is      *)
(* true, for every reject reason; no such event is inserted for an         *)
(* accepted point or when the flag is false.                               *)

\* The event of the rejected point in hand
JumpRejected ==
    [entity |-> RouterEnt(Sn), type |-> "gps_jump_rejected",
     payload |-> [lat |-> g_pt.pos, lon |-> g_pt.pos,
                  reject_reason |-> g_verdict.reject_reason,
                  satellites |-> g_pt.satellites]]

C17_RejectEvent ==
    [][/\ events' # events => GpsCommitStep
       /\ GpsCommitStep =>
             IF ~g_verdict.accepted /\ events_policy.enable_gps_reject_events
             THEN /\ events' = Append(events, JumpRejected)
                  /\ OneRawRow(FALSE)
                  /\ gps_raw_history'[Len(gps_raw_history')].reject_reason =
                         g_verdict.reject_reason
                  /\ g_verdict.reject_reason \in
                         {"low_sats", "bad_fix", "jump_distance", "jump_speed"}
             ELSE events' = events
      ]_vars

\* Two points were rejected, one at the quality gate and one at the jump
\* gate, and each has its event beside its raw row
C17_Witness ==
    /\ g_pc = "idle"
    /\ events_policy.enable_gps_reject_events
    /\ Len(events) = 2
    /\ Len(gps_raw_history) = 2
    /\ \A i \in 1..2 :
          /\ events[i].type = "gps_jump_rejected"
          /\ events[i].payload.reject_reason = gps_raw_history[i].reject_reason
          /\ events[i].payload.lat = gps_raw_history[i].pos
          /\ events[i].payload.satellites = gps_raw_history[i].satellites
    /\ events[1].payload.reject_reason \in {"low_sats", "bad_fix"}
    /\ events[2].payload.reject_reason \in {"jump_distance", "jump_speed"}

----------------------------------------------------------------------------
(* The decoded handler, as the claims about it speak of it *)

\* The last message was stored: its transaction did not fail for good
Stored ==
    /\ h_pc = "idle"
    /\ h_n > 0
    /\ h_msg.is_list
    /\ h_attempt <= cfg.worker_max_retries

\* The addrs of the message in hand that parse
ParseableAddrs(regs) ==
    {regs[i].addr[1] : i \in {j \in 1..Len(regs) : ~IsNone(regs[j].addr)}}

\* The last element of registers[] with the addr
LastWith(regs, addr) ==
    LET at == {i \in 1..Len(regs) : regs[i].addr = Some(addr)}
    IN regs[CHOOSE i \in at : \A j \in at : j <= i]

\* store_history as the catalog row gives it, or else the defaults
StoreResolved(addr) ==
    IF addr \in DOMAIN register_catalog THEN register_catalog[addr].store_history
    ELSE history_policy.defaults.store_history

----------------------------------------------------------------------------
(* C18: if the resolved store_history of a register is false, no history   *)
(* row is ever written for that register, for every sequence of decoded    *)
(* messages, while its latest_state row is still upserted.                 *)

C18_NoHistoryWhenOff ==
    /\ \A i \in 1..Len(history) : StoreResolved(history[i].addr)
    /\ h_pc = "staged" =>
          \A i \in 1..Len(h_staged.history_batch) :
              StoreResolved(h_staged.history_batch[i].addr)
    /\ Stored =>
          \A addr \in ParseableAddrs(h_msg.registers) :
              ~StoreResolved(addr) =>
                  /\ addr \in DOMAIN latest_state
                  /\ latest_state[addr] =
                         LatestRow(addr, LastWith(h_msg.registers, addr))

\* A message with a register that keeps history and one that does not was
\* stored: a history row for the first, a latest_state row for both
C18_Witness ==
    /\ h_pc = "idle"
    /\ h_n = 1
    /\ history_policy.defaults.store_history
    /\ \E off \in DOMAIN latest_state : ~StoreResolved(off)
    /\ \E on \in DOMAIN latest_state : StoreResolved(on)
    /\ Len(history) = 1

----------------------------------------------------------------------------
(* C19: with one worker and min_interval_sec > 0, any two consecutive      *)
(* history writes of a register key are at least min_interval_sec apart,   *)
(* on the processing timestamps the decision uses, for every sequence of   *)
(* decoded messages, failed and retried transactions included.             *)

\* min_interval_sec as the catalog row gives it, or else the defaults
MinIntervalResolved(addr) ==
    IF addr \in DOMAIN register_catalog
       /\ ~IsNone(register_catalog[addr].min_interval_sec)
    THEN register_catalog[addr].min_interval_sec[1]
    ELSE history_policy.defaults.min_interval_sec

\* The rows of a key, in the order of their insertion, keep the distance
Spaced(rows) ==
    \A i, j \in 1..Len(rows) :
        (i < j /\ rows[i].addr = rows[j].addr) =>
            rows[j].decided_at - rows[i].decided_at >=
                MinIntervalResolved(rows[i].addr)

C19_MinInterval ==
    (cfg.worker_count = 1 /\ history_policy.defaults.min_interval_sec > 0) =>
        /\ Spaced(history)
        /\ h_pc = "staged" => Spaced(history \o h_staged.history_batch)

\* A register has two history rows exactly min_interval_sec apart, the
\* second stored by a retry
C19_Witness ==
    /\ h_pc = "idle"
    /\ history_policy.defaults.min_interval_sec > 0
    /\ h_attempt = 1
    /\ Len(history) >= 2
    /\ \E i, j \in 1..Len(history) :
          /\ i < j
          /\ history[i].addr = history[j].addr
          /\ history[j].decided_at = h_now
          /\ history[j].decided_at - history[i].decided_at =
                 MinIntervalResolved(history[i].addr)

----------------------------------------------------------------------------
(* C20: for every decoded message the latest_state batch holds exactly one *)
(* row per distinct parseable addr of the message, that of the last        *)
(* occurrence of the addr, so one batch never upserts two latest_state     *)
(* rows with the same addr.                                                *)

\* The batch is one row for each addr, built from its last occurrence
OneRowPerAddr(batch, regs) ==
    /\ Cardinality(batch) = Cardinality(ParseableAddrs(regs))
    /\ {r.addr : r \in batch} = ParseableAddrs(regs)
    /\ \A r1, r2 \in batch : r1.addr = r2.addr => r1 = r2
    /\ \A r \in batch : r = LatestRow(r.addr, LastWith(regs, r.addr))

C20_OneLatestRowPerAddr ==
    /\ h_pc = "staged" =>
          OneRowPerAddr(dict_values(h_staged.latest_rows_map), h_msg.registers)
    /\ Stored =>
          /\ OneRowPerAddr(dict_values(h_staged.latest_rows_map), h_msg.registers)
          /\ \A addr \in ParseableAddrs(h_msg.registers) :
                /\ addr \in DOMAIN latest_state
                /\ latest_state[addr] = LatestRow(addr, LastWith(h_msg.registers, addr))

\* The second message had one addr twice, with two values: the table has
\* one row, of the second value
C20_Witness ==
    /\ Stored
    /\ h_n = 2
    /\ Len(h_msg.registers) = 2
    /\ h_msg.registers[1].addr = h_msg.registers[2].addr
    /\ h_msg.registers[1].value # h_msg.registers[2].value
    /\ DOMAIN latest_state = ParseableAddrs(h_msg.registers)
    /\ Cardinality(DOMAIN latest_state) = 1
    /\ \A addr \in DOMAIN latest_state :
          latest_state[addr].value = h_msg.registers[2].value

----------------------------------------------------------------------------
(* C21: at most one history row is written per register key per received   *)
(* decoded message, for every configuration, min_interval_sec = 0          *)
(* included, and also when the message lists one addr more than once with  *)
(* differing values.                                                       *)

\* No two rows of the batch have the same key
OneRowPerKey(batch) ==
    \A i, j \in 1..Len(batch) : batch[i].addr = batch[j].addr => i = j

C21_OneHistoryRowPerMessage ==
    /\ h_pc = "staged" => OneRowPerKey(h_staged.history_batch)
    /\ Stored =>
          /\ OneRowPerKey(h_staged.history_batch)
          /\ Len(history) >= Len(h_staged.history_batch)
          /\ SubSeq(history, Len(history) - Len(h_staged.history_batch) + 1,
                    Len(history)) = h_staged.history_batch

----------------------------------------------------------------------------
(* C22: in every reachable store state each history row has a latest_state *)
(* row with the same key: the transaction that inserts a history row       *)
(* upserts the latest_state row of its key before, and a failed            *)
(* transaction leaves neither.                                             *)

C22_HistoryHasLatest ==
    /\ \A i \in 1..Len(history) : history[i].addr \in DOMAIN latest_state
    /\ h_pc = "staged" =>
          \A i \in 1..Len(h_staged.history_batch) :
              h_staged.history_batch[i].addr \in
                  {r.addr : r \in dict_values(h_staged.latest_rows_map)}

\* Two registers have history rows, stored by the retry of a transaction
\* that had failed, and each has its latest_state row
C22_Witness ==
    /\ Stored
    /\ h_n = 1
    /\ h_attempt = 1
    /\ Len(history) = 2
    /\ history[1].addr # history[2].addr
    /\ DOMAIN latest_state = {history[1].addr, history[2].addr}

----------------------------------------------------------------------------
(* C23: scenario trace.  For an analog register with tolerance 0.5,        *)
(* min-interval 10 s, heartbeat 900 s and no earlier history, the samples  *)
(* 150.0 at 0 s, 151.0 at 3 s, 151.0 at 12 s, 152.0 at 20 s and 152.0 at   *)
(* 920 s, processed in order by one worker, write history exactly at 0 s   *)
(* (change), 20 s (change) and 920 s (heartbeat) and at no other step,     *)
(* while latest_state is upserted at all five steps.                       *)

Scenario ==
    <<[at |-> 0, value |-> 1500], [at |-> 3, value |-> 1510],
      [at |-> 12, value |-> 1510], [at |-> 20, value |-> 1520],
      [at |-> 920, value |-> 1520]>>

\* The history writes the scenario expects, and those among its first k steps
ScenarioWrites ==
    <<[at |-> 0, value |-> 1500, write_reason |-> "change"],
      [at |-> 20, value |-> 1520, write_reason |-> "change"],
      [at |-> 920, value |-> 1520, write_reason |-> "heartbeat"]>>
WritesUpTo(k) ==
    SubSeq(ScenarioWrites, 1,
           Cardinality({i \in 1..Len(ScenarioWrites) :
                           ScenarioWrites[i].at <= Scenario[k].at}))

\* The history table, as the times, values and reasons of its rows
Written ==
    [i \in 1..Len(history) |->
        [at |-> history[i].decided_at, value |-> history[i].value[1],
         write_reason |-> history[i].write_reason]]

C23_ScenarioTrace ==
    \A k \in 1..Len(Scenario) :
        (Stored /\ h_trace = SubSeq(Scenario, 1, k)) =>
            /\ Written = WritesUpTo(k)
            /\ DOMAIN latest_state = {1}
            /\ latest_state[1].value = Some(Scenario[k].value)
            /\ dict_values(h_staged.latest_rows_map) = {latest_state[1]}

\* The five samples of the scenario were stored
C23_Witness ==
    /\ Stored
    /\ h_trace = Scenario
    /\ Len(history) = 3
    /\ latest_state[1].value = Some(1520)

----------------------------------------------------------------------------
(* C24: retention is idempotent: when a complete sweep is followed by      *)
(* another complete sweep with no new rows, and the clock has not advanced *)
(* since the first sweep began, the second sweep deletes zero rows from    *)
(* every table and leaves the store as the first sweep left it.            *)
NothingDeleted == [i \in 1..Len(RetTables) |-> 0]

C24_RetentionIdempotent ==
    \A i \in 1..Len(r_done) - 1 :
        r_done[i + 1].at = r_done[i].from
            => /\ r_done[i + 1].counts = NothingDeleted
               /\ r_done[i + 1].rows = r_done[i].rows

\* Two complete sweeps at the same time, the first of which deleted rows
C24_Witness ==
    /\ Len(r_done) = 2
    /\ r_done[2].at = r_done[1].from
    /\ r_done[1].counts # NothingDeleted

----------------------------------------------------------------------------
(* C25: each cleanup_<table>(age, batch) call terminates for every         *)
(* configured batch size and finite table: every round deletes at most     *)
(* batch aged rows, lowest id first; the call returns after a round that   *)
(* removed fewer than batch rows, having deleted exactly the rows older    *)
(* than the age threshold and no younger row, and returns the total number *)
(* of rows deleted.                                                        *)
InCall(table) == r_pc = table
AgedIn(rows, table) == {r \in rows : r.table = table /\ aged(r, clock)}

\* A round deletes at most batch rows, all aged, none with a higher id than
\* an aged row it leaves
RoundStep ==
    LET gone == r_rows \ r_rows'
    IN  /\ Cardinality(gone) <= r_cfg.batch_size
        /\ gone \subseteq AgedIn(r_rows, r_pc)
        /\ \A g \in gone : \A r \in AgedIn(r_rows', r_pc) : g.id < r.id

\* The call returns: no aged row is left, no younger row is gone, and the
\* value returned counts the rows deleted
ReturnStep ==
    Len(r_counts') = Len(r_counts) + 1
        => /\ AgedIn(r_rows', r_pc) = {}
           /\ (r_start \ r_rows') \subseteq AgedIn(r_start, r_pc)
           /\ r_counts'[Len(r_counts')] = Cardinality(r_start \ r_rows')

CallEnds == \A table \in Tables : InCall(table) ~> ~InCall(table)

C25_CleanupTerminates ==
    /\ [][RoundStep /\ ReturnStep]_ret_vars
    /\ CallEnds

----------------------------------------------------------------------------
(* C26: reconnect backoff.  The first broker-transport failure after a     *)
(* successful connect (the connection made and both subscriptions          *)
(* acknowledged), or after the start, sleeps reconnect_min_delay; the k-th *)
(* consecutive failure, k >= 2, sleeps min(reconnect_min_delay * 2^(k-1),  *)
(* reconnect_max_delay).  So every sleep stays within [reconnect_min_delay,*)
(* reconnect_max_delay] when reconnect_min_delay <= reconnect_max_delay,   *)
(* and the delay is reconnect_min_delay after every successful connect.    *)
RECURSIVE Pow2(_)
Pow2(n) == IF n = 0 THEN 1 ELSE 2 * Pow2(n - 1)

Backoff(k) == min(mqtt.reconnect_min_delay * Pow2(k - 1), mqtt.reconnect_max_delay)

Connected == c_pc = "messages"

C26_Backoff ==
    /\ \A i \in 1..Len(c_slept) :
          /\ c_slept[i].delay = IF c_slept[i].k = 1 THEN mqtt.reconnect_min_delay
                                ELSE Backoff(c_slept[i].k)
          /\ mqtt.reconnect_min_delay <= mqtt.reconnect_max_delay
                => /\ c_slept[i].delay >= mqtt.reconnect_min_delay
                   /\ c_slept[i].delay <= mqtt.reconnect_max_delay
    /\ Connected => delay = mqtt.reconnect_min_delay

\* The delay has been capped at the third failure in a row, and a failure
\* after the next successful connect has slept the minimum again
C26_Witness ==
    /\ mqtt.reconnect_min_delay < mqtt.reconnect_max_delay
    /\ \E i \in 1..Len(c_slept) : \E j \in 1..Len(c_slept) :
          /\ i < j
          /\ c_slept[i].k = 3
          /\ c_slept[i].delay = mqtt.reconnect_max_delay
          /\ c_slept[i].delay < mqtt.reconnect_min_delay * 4
          /\ c_slept[j].k = 1
          /\ c_slept[j].delay = mqtt.reconnect_min_delay

\* The statement as the specification has it: the k-th consecutive failure
\* sleeps min(reconnect_min_delay * 2^(k-1), reconnect_max_delay), within
\* [reconnect_min_delay, reconnect_max_delay], for every configuration
C26_BackoffAlways ==
    /\ \A i \in 1..Len(c_slept) :
          /\ c_slept[i].delay = Backoff(c_slept[i].k)
          /\ c_slept[i].delay >= mqtt.reconnect_min_delay
          /\ c_slept[i].delay <= mqtt.reconnect_max_delay
    /\ Connected => delay = mqtt.reconnect_min_delay

----------------------------------------------------------------------------
(* C27: with worker_count = 1 the items dispatched from each queue are     *)
(* processed in that queue's arrival order (a subsequence of it: the       *)
(* dispatch calls of a queue never go back to an earlier item), and a      *)
(* later item of a queue is never dispatched before all attempts on an     *)
(* earlier item of that queue have ended (while the worker holds an item,  *)
(* no later item of its queue has been dispatched).                        *)
DispatchedFrom(k) == SelectSeq(o_log, LAMBDA e : e.src = k)

InArrivalOrder(s) ==
    \A i \in 1..Len(s) - 1 : s[i].received_at <= s[i + 1].received_at

C27_ArrivalOrder ==
    /\ \A k \in Kinds : InArrivalOrder(DispatchedFrom(k))
    /\ \A w \in ActiveWorkers :
          witem[w] # NoItem =>
              \A i \in 1..Len(DispatchedFrom(wsrc[w])) :
                  DispatchedFrom(wsrc[w])[i].received_at <= witem[w].received_at

\* A decoded item was dispatched twice (a retry), a later decoded item after
\* it, and a decoded item was dropped meanwhile
C27_Witness ==
    /\ cfg.worker_count = 1
    /\ dropped["decoded"] >= 1
    /\ LET s == DispatchedFrom("decoded")
       IN  /\ Len(s) = 3
           /\ s[1].received_at = s[2].received_at
           /\ s[2].received_at < s[3].received_at

----------------------------------------------------------------------------
(* C28: on shutdown (all tasks cancelled) a worker that is in the middle   *)
(* of dispatching an item completes that item before it exits: the         *)
(* transaction it is in commits (for a GPS point: its raw row is in        *)
(* gps_raw_history when the worker has exited).                            *)
InTransaction(w) == wpc[w] = "txn"
Exits(w) == wpc[w] # "exited" /\ wpc'[w] = "exited"

C28_ShutdownCompletesItem ==
    [][\A w \in ActiveWorkers :
           (InTransaction(w) /\ IsGps(witem[w]) /\ Exits(w)) =>
               gps_raw_history' =
                   Append(gps_raw_history, [router_sn |-> witem[w].topic.sn])
      ]_vars

----------------------------------------------------------------------------
(* C29: a message whose payload cannot be parsed on a recognised topic, or *)
(* whose topic matches neither shape, is consumed without any store write: *)
(* the first dispatch call returns normally, so the worker lets go of the  *)
(* item after exactly one call and never retries it.                       *)
Unparsed(item) ==
    \/ ~(IsTelemetryTopic(item.topic) \/ IsDecodedTopic(item.topic))
    \/ item.payload \in {"badjson", "badbytes"}

DispatchStep(w) == wpc[w] = "dispatch" /\ wpc'[w] # "dispatch"

C29_UnparsedConsumedOnce ==
    [][\A w \in ActiveWorkers :
           (DispatchStep(w) /\ Unparsed(witem[w])) =>
               /\ ReleaseStep(w)
               /\ wcalls'[w] = 1
               /\ gps_raw_history' = gps_raw_history
      ]_vars

----------------------------------------------------------------------------
(* C30: should_write_history equals the reference decision for every       *)
(* combination of inputs: store_history false gives no write; else elapsed *)
(* known and < min_interval_sec gives no write even when the sample        *)
(* changed; else changed (raw, text or reason differs, or tolerance        *)
(* non-null and |new - prev| > tolerance, or tolerance non-null and        *)
(* exactly one numeric value is null) gives write "change"; else elapsed   *)
(* unknown or >= heartbeat_sec gives write "heartbeat"; else no write.     *)
ElapsedKnown == d_in.last_history_ts # <<>>
Elapsed == d_in.now - d_in.last_history_ts[1]

FieldDiffers ==
    \/ d_in.new.raw # d_in.prev.raw
    \/ d_in.new.text # d_in.prev.text
    \/ d_in.new.reason # d_in.prev.reason

BeyondTolerance ==
    /\ d_in.params.tolerance # <<>>
    /\ d_in.new.value # <<>>
    /\ d_in.prev.value # <<>>
    /\ \/ d_in.new.value[1] - d_in.prev.value[1] > d_in.params.tolerance[1]
       \/ d_in.prev.value[1] - d_in.new.value[1] > d_in.params.tolerance[1]

OneValueNull ==
    /\ d_in.params.tolerance # <<>>
    /\ (d_in.new.value = <<>>) # (d_in.prev.value = <<>>)

ReferenceChanged == FieldDiffers \/ BeyondTolerance \/ OneValueNull

NoWrite == [write |-> FALSE, write_reason |-> ""]
Write(why) == [write |-> TRUE, write_reason |-> why]

ReferenceDecision ==
    CASE ~d_in.params.store_history -> NoWrite
      [] d_in.params.store_history /\ ElapsedKnown
            /\ Elapsed < d_in.params.min_interval_sec -> NoWrite
      [] OTHER ->
            IF ReferenceChanged THEN Write("change")
            ELSE IF ~ElapsedKnown \/ Elapsed >= d_in.params.heartbeat_sec
            THEN Write("heartbeat")
            ELSE NoWrite

C30_ReferenceDecision == d_out # <<>> => d_out[1] = ReferenceDecision

\* A call that returned "change" only because exactly one of the two
\* numeric values is null, the minimum interval being over
C30_Witness ==
    /\ d_out = <<Write("change")>>
    /\ ~FieldDiffers
    /\ OneValueNull
    /\ ElapsedKnown
    /\ Elapsed >= d_in.params.min_interval_sec
    /\ d_in.params.min_interval_sec > 0

----------------------------------------------------------------------------
(* C31: after every check that returns accepted (bootstrap, deadband,      *)
(* normal move or confirmed relocation) the filter's last_accepted equals  *)
(* the checked point and the confirm buffer is empty.                      *)
CheckStep == FirstCheckStep \/ RetryCheckStep
FilterBefore == gps_filters[g_msg'.router_sn]
FilterAfter == gps_filters'[g_msg'.router_sn]

C31_AcceptSetsLast ==
    [][(CheckStep /\ g_verdict'.accepted) =>
          /\ FilterAfter.last_accepted = <<g_pt'>>
          /\ FilterAfter.confirm = <<>>
      ]_vars

(* C31 as amended: after every check that returns accepted the confirm     *)
(* buffer is empty; last_accepted equals the checked point after a         *)
(* bootstrap, a normal move or a confirmed relocation, and is left as it   *)
(* was by a point accepted within the deadband of it.                      *)
C31_AcceptSetsLastBeyondDeadband ==
    [][(CheckStep /\ g_verdict'.accepted) =>
          /\ FilterAfter.confirm = <<>>
          /\ FilterAfter.last_accepted =
                IF InDeadband(FilterBefore, g_pt')
                THEN FilterBefore.last_accepted
                ELSE <<g_pt'>>
      ]_vars

\* A relocation was confirmed: the buffer held a point, now it is empty and
\* last_accepted is the point in hand, far from the one before
C31_Witness ==
    /\ g_pc = "txn"
    /\ g_attempt = 0
    /\ g_verdict.accepted
    /\ g_pre.confirm # <<>>
    /\ g_pre.last_accepted # <<>>
    /\ haversine_m(g_pre.last_accepted[1].pos, g_pt.pos) > max_jump_m
    /\ gps_filters[Sn].last_accepted = <<g_pt>>
    /\ gps_filters[Sn].confirm = <<>>

----------------------------------------------------------------------------
(* Two worker tasks of one process on decoded messages: each call of       *)
(* _handle_decoded has its own now, prev_map and staged rows; the store    *)
(* and the module's _last_history_ts are shared.  A step runs from one     *)
(* await to the next.                                                      *)

RaceMaxMsgs == 2
RaceMaxTime == 2

\* Decoded payloads with one register
RaceMessages == {m \in DecodedMessages : m.is_list /\ Len(m.registers) = 1}

\* Mutant: every worker task starts the register loop on a dict of its own
last_history_ts_seen_PerTask(cache) == <<>>

\* handlers.py line 26 and 363: _last_history_ts is one dict of the module,
\* read by every worker task
last_history_ts_seen(cache) == cache

\* Two worker tasks, no retry; nothing stored, nothing remembered
RaceInit ==
    /\ \E c \in Configs :
          /\ c.worker_count = 2
          /\ c.worker_max_retries = 0
          /\ c.drop_decoded_when_full
          /\ c.drop_decoded_policy = "drop_new"
          /\ InitWith(c, [msgs |-> 0, time |-> RaceMaxTime, watchdog |-> FALSE,
                          stamps |-> FALSE])
    /\ events_policy = [enable_gps_reject_events |-> TRUE]
    /\ gps_latest_filtered = <<>>
    /\ gps_filters = restore_gps_state(gps_latest_filtered)
    /\ GpsIdle
    /\ history_policy = HistoryPolicy(min_interval_sec, TRUE)
    /\ \E cat \in Catalogs : register_catalog = cat
    /\ HistIdle
    /\ SideIdle

beside_race ==
    <<pipe_vars, live_vars, wd_vars, gps_vars, trace_vars, ret_vars, conn_vars,
      order_vars, decide_vars, history_policy, register_catalog, h_pc, h_msg, h_now,
      h_staged, h_attempt, h_wake, h_n>>

\* What worker task w holds
HwSet(w, pc, msg, now, prev_map, st) ==
    hw' = [hw EXCEPT !.w[w] = [pc |-> pc, msg |-> msg, now |-> now,
                               prev_map |-> prev_map, st |-> st]]

\* Worker w takes a decoded message: _handle_decoded up to line 242, `now`
\* is read at line 235
RaceDispatch(w, msg) ==
    /\ hw.w[w].pc = "idle"
    /\ hw.n < RaceMaxMsgs
    /\ hw' = [hw EXCEPT !.n = @ + 1,
                        !.w[w] = [pc |-> "begin", msg |-> msg, now |-> clock,
                                  prev_map |-> <<>>,
                                  st |-> Staged(<<>>, <<>>, <<>>)]]
    /\ UNCHANGED <<beside_race, clock, latest_state, history, last_history_ts>>

\* Lines 244-249: prev_map = await get_latest_state_rows_many(...)
RaceRead(w) ==
    /\ hw.w[w].pc = "begin"
    /\ HwSet(w, "read", hw.w[w].msg, hw.w[w].now, latest_state, hw.w[w].st)
    /\ UNCHANGED <<beside_race, clock, latest_state, history, last_history_ts>>

\* Lines 252-267: the register loop, which awaits nothing that suspends
RaceLoop(w) ==
    /\ hw.w[w].pc = "read"
    /\ LET st == process_registers(history_policy, register_catalog,
                     hw.w[w].prev_map, hw.w[w].msg.registers, hw.w[w].now,
                     Staged(<<>>, <<>>, last_history_ts_seen(last_history_ts)))
       IN /\ HwSet(w, "staged", hw.w[w].msg, hw.w[w].now, hw.w[w].prev_map, st)
          /\ last_history_ts' = st.cache
    /\ UNCHANGED <<beside_race, clock, latest_state, history>>

\* Lines 269-275 and the commit of the transaction
RaceCommit(w) ==
    /\ hw.w[w].pc = "staged"
    /\ latest_state' = upsert_latest_state_batch(latest_state,
                           dict_values(hw.w[w].st.latest_rows_map))
    /\ history' = history \o hw.w[w].st.history_batch
    /\ HwSet(w, "idle", hw.w[w].msg, hw.w[w].now, <<>>, Staged(<<>>, <<>>, <<>>))
    /\ UNCHANGED <<beside_race, clock, last_history_ts>>

\* The transaction raises and is rolled back; with worker_max_retries = 0
\* the message is given up.  main.py lines 235-254
RaceFail(w) ==
    /\ hw.w[w].pc \in {"begin", "read", "staged"}
    /\ Exhausted(1, cfg.worker_max_retries)
    /\ HwSet(w, "idle", hw.w[w].msg, hw.w[w].now, <<>>, Staged(<<>>, <<>>, <<>>))
    /\ UNCHANGED <<beside_race, clock, latest_state, history, last_history_ts>>

\* A second passes, wherever the worker tasks are
RaceTick ==
    /\ clock < RaceMaxTime
    /\ clock' = clock + 1
    /\ UNCHANGED <<beside_race, hw, latest_state, history, last_history_ts>>

RaceNext ==
    \/ \E w \in RaceWorkers : \E msg \in RaceMessages : RaceDispatch(w, msg)
    \/ \E w \in RaceWorkers : RaceRead(w)
    \/ \E w \in RaceWorkers : RaceLoop(w)
    \/ \E w \in RaceWorkers : RaceCommit(w)
    \/ \E w \in RaceWorkers : RaceFail(w)
    \/ RaceTick

SpecRace == RaceInit /\ [][RaceNext]_vars

----------------------------------------------------------------------------
(* C32: with worker_count > 1 the last-history-ts cache is one dict shared *)
(* by the worker tasks and the register loop runs without suspension, so   *)
(* any two history rows of a register key, committed or staged by either   *)
(* worker, are at least min_interval_sec apart on the processing           *)
(* timestamps: a worker that runs its loop less than min_interval_sec      *)
(* after another worker staged a row for the key stages none.              *)

\* The rows committed and the rows staged by the transactions in flight
RaceRows ==
    history \o hw.w[1].st.history_batch \o hw.w[2].st.history_batch

C32_CacheSharedAcrossWorkers ==
    cfg.worker_count > 1 =>
        \A i, j \in 1..Len(RaceRows) :
            (i # j /\ RaceRows[i].addr = RaceRows[j].addr) =>
                Abs(RaceRows[j].decided_at - RaceRows[i].decided_at) >=
                    MinIntervalResolved(RaceRows[i].addr)

\* Both transactions are in flight on the same register
RaceOnOneKey ==
    /\ cfg.worker_count > 1
    /\ hw.w[1].pc = "staged" /\ hw.w[2].pc = "staged"
    /\ hw.w[1].msg.registers[1].addr = hw.w[2].msg.registers[1].addr
    /\ ~IsNone(hw.w[1].msg.registers[1].addr)
    /\ hw.w[1].prev_map = <<>> /\ hw.w[2].prev_map = <<>>
    /\ Abs(hw.w[2].now - hw.w[1].now) < min_interval_sec

\* The original statement: the cache does not hold the second worker back
C32_BothWorkersWrite ==
    RaceOnOneKey =>
        (hw.w[1].st.history_batch # <<>>) = (hw.w[2].st.history_batch # <<>>)

\* Worker 1 staged the history row of a register; worker 2, a second later
\* and before worker 1 commits, has a changed value of it and stages no row
C32_Witness ==
    /\ RaceOnOneKey
    /\ hw.w[2].now = hw.w[1].now + 1
    /\ hw.w[1].msg.registers[1].value # hw.w[2].msg.registers[1].value
    /\ Len(hw.w[1].st.history_batch) = 1
    /\ hw.w[2].st.history_batch = <<>>
    /\ Len(RaceRows) = 1

----------------------------------------------------------------------------
(* C33: when a message is dispatched again on a worker retry after a store *)
(* failure, the confirm buffer of its router and the verdict recorded for  *)
(* the message are what the first dispatch left: only distinct received    *)
(* messages count towards the confirm_points of a relocation.              *)

C33_RetryLeavesFilter ==
    [][RetryCheckStep =>
          /\ FilterAfter.confirm = FilterBefore.confirm
          /\ FilterAfter.last_accepted = FilterBefore.last_accepted
          /\ g_verdict'.accepted = g_verdict.accepted
          /\ g_verdict'.reject_reason = g_verdict.reject_reason]_vars

----------------------------------------------------------------------------
(* One worker on decoded messages with min_interval_sec above              *)
(* worker_retry_delay_sec, as the defaults of config.py have them (10 s    *)
(* and 2 s).                                                               *)

min_interval_long == 3

RetryInit ==
    /\ \E c \in Configs :
          /\ c.worker_count = 1
          /\ c.worker_max_retries = 1
          /\ c.drop_decoded_when_full
          /\ c.drop_decoded_policy = "drop_new"
          /\ InitWith(c, [msgs |-> 0, time |-> HistMaxTime, watchdog |-> FALSE,
                          stamps |-> FALSE])
    /\ events_policy = [enable_gps_reject_events |-> TRUE]
    /\ gps_latest_filtered = <<>>
    /\ gps_filters = restore_gps_state(gps_latest_filtered)
    /\ GpsIdle
    /\ history_policy = HistoryPolicy(min_interval_long, TRUE)
    /\ \E cat \in Catalogs : register_catalog = cat
    /\ HistIdle
    /\ SideIdle

SpecHistRetry == RetryInit /\ [][HistNext]_vars

----------------------------------------------------------------------------
(* C34: a decoded message whose transaction failed stages on its retry the *)
(* history rows it would stage had no attempt failed: the cache entry of a *)
(* key is the time of the last history row committed for it, so no change  *)
(* is lost to min-interval suppression on the retry.                       *)

\* The last-history timestamps of the rows that were committed
CommittedTs ==
    [a \in {history[i].addr : i \in 1..Len(history)} |->
        LET at == {history[i].decided_at : i \in {k \in 1..Len(history) :
                                                     history[k].addr = a}}
        IN CHOOSE t \in at : \A u \in at : u <= t]

C34_RetryCommitsSameRows ==
    (h_pc = "staged" /\ h_attempt >= 1) =>
        h_staged.history_batch =
            process_registers(history_policy, register_catalog, latest_state,
                              h_msg.registers, h_now,
                              Staged(<<>>, <<>>, CommittedTs)).history_batch

----------------------------------------------------------------------------
(* The ingest loop and the workers under the scheduling of the event loop: *)
(* a task that can resume does resume, the store may fail but a worker     *)
(* gives up after worker_max_retries, the broker sends what it likes and   *)
(* may stop sending.  No shutdown.                                         *)

FairMaxMsgs == 3

FairInit ==
    /\ \E c \in Configs : InitWith(c, [msgs |-> FairMaxMsgs, time |-> 0,
                                    watchdog |-> FALSE, stamps |-> FALSE])
    /\ HandlersIdle
    /\ SideIdle

FairNext ==
    \/ \E t \in Topics : \E p \in Payloads(t) : Arrive(t, p)
    \/ IngestReceive
    \/ IngestPutResume
    \/ \E w \in ActiveWorkers : WorkerGet(w)
    \/ \E w \in ActiveWorkers : WorkerWake(w)
    \/ \E w \in ActiveWorkers : DispatchBegin(w)
    \/ \E w \in ActiveWorkers : StoreCommit(w)
    \/ \E w \in ActiveWorkers : StoreFail(w)
    \/ \E w \in ActiveWorkers : RetryWake(w)

\* Every task of the loop that is ready to run gets to run
FairScheduling ==
    /\ WF_vars(IngestReceive)
    /\ WF_vars(IngestPutResume)
    /\ \A w \in Workers :
          /\ WF_vars(WorkerGet(w))
          /\ WF_vars(WorkerWake(w))
          /\ WF_vars(DispatchBegin(w))
          /\ WF_vars(StoreCommit(w))
          /\ WF_vars(RetryWake(w))

SpecPipeFair == FairInit /\ [][FairNext]_vars /\ FairScheduling

----------------------------------------------------------------------------
(* C35: under fair scheduling and a store that ends up succeeding, every   *)
(* item placed in the telemetry queue is eventually taken and dispatched   *)
(* by a worker, also when no decoded message arrives any more.             *)

C35_TelemetryDispatched == (q_telemetry # <<>>) ~> (q_telemetry = <<>>)

----------------------------------------------------------------------------
(* One worker on telemetry messages and a store that does not fail *)

GpsOkNext ==
    \/ \E msg \in GpsMessages : GpsDispatch(msg)
    \/ GpsCommit
    \/ GpsTick

SpecGpsOk == GpsInit /\ [][GpsOkNext]_vars

----------------------------------------------------------------------------
(* C36: with one worker and no store failure, from the warm start on and   *)
(* after every telemetry message processed, gps_latest_filtered holds a    *)
(* row for a router exactly when its filter has a last_accepted, and the   *)
(* row's coordinates are those of last_accepted.                           *)

FilterAgrees(sn) ==
    IF HasLatest(gps_latest_filtered, sn)
    THEN /\ gps_filters[sn].last_accepted # <<>>
         /\ gps_filters[sn].last_accepted[1].pos = gps_latest_filtered[sn].pos
    ELSE gps_filters[sn].last_accepted = <<>>

C36_FilterMatchesStore ==
    (cfg.worker_count = 1 /\ g_pc = "idle") => \A sn \in Routers : FilterAgrees(sn)

\* After a warm start, a point in the deadband left both alone and the next
\* point, a normal move, has moved both
C36_Witness ==
    /\ g_pc = "idle"
    /\ g_n = 2
    /\ g_verdict.accepted
    /\ Len(gps_raw_history) = 2
    /\ gps_raw_history[1].accepted
    /\ gps_raw_history[1].pos # gps_raw_history[2].pos
    /\ HasLatest(gps_latest_filtered, Sn)
    /\ ~IsWarmRow(Sn, gps_latest_filtered[Sn])
    /\ gps_latest_filtered[Sn].pos = g_pt.pos
    /\ gps_latest_filtered[Sn].pos # gps_raw_history[1].pos
    /\ gps_filters[Sn].last_accepted[1].pos = g_pt.pos
    /\ g_pre.last_accepted # <<>>
    /\ IsWarmRow(Sn, [pos |-> g_pre.last_accepted[1].pos,
                      satellites |-> g_pre.last_accepted[1].satellites,
                      fix_status |-> g_pre.last_accepted[1].fix_status,
                      received_at |-> g_pre.last_accepted[1].received_at])

----------------------------------------------------------------------------
(* C37: in every reachable filter state the confirm buffer holds fewer     *)
(* than confirm_points points and every buffered point lies within         *)
(* confirm_radius_m of the first; after a check whose verdict is accepted  *)
(* or a quality rejection the buffer of that router is empty.              *)

BufferInRadius(buf) ==
    \A i \in 1..Len(buf) : haversine_m(buf[1].pos, buf[i].pos) <= confirm_radius_m

----------------------------------------------------------------------------
(* C38: the watchdog remembers an offline or online state of an entity     *)
(* only in the step that inserts the event of that transition, and inserts *)
(* an event only for a state it did not remember yet; when the insert      *)
(* fails nothing is inserted, the remembered states keep their values and  *)
(* the next evaluation of the entity starts from the same previous state.  *)

\* The insert of the event in hand raises in this step
InsertFailStep == wd_errors' = wd_errors + 1

C38_EventBeforeState ==
    [][\A e \in Entities :
          /\ \A ty \in {"offline", "online"} :
                /\ (StateAfter(e) # State(e) /\ StateAfter(e) = ty) => EventStep(e, ty)
                /\ EventStep(e, ty) => (State(e) # ty /\ StateAfter(e) = ty)
          /\ InsertFailStep => (StateAfter(e) = State(e) /\ events' = events)
          /\ (/\ ClassifiedInStep(e)
              /\ e \in DOMAIN last_class
              /\ last_class[e].out = "failed") =>
                last_class'[e].prev = last_class[e].prev
      ]_vars

\* The insert of an entity's offline event failed at one sweep and a later
\* sweep has inserted it: one event, and the state is remembered
C38_Witness ==
    \E e \in DOMAIN last_class :
        /\ DOMAIN last_class = {e}
        /\ wd_errors >= 1
        /\ Len(events) = 1
        /\ events[1].entity = e
        /\ events[1].type = "offline"
        /\ last_class[e].out = "emitted"
        /\ State(e) = "offline"
        /\ wd_pc = "sleep"

----------------------------------------------------------------------------
(* The watchdog on its own: messages reach the ingest loop at any time and *)
(* touch the liveness maps, the worker waits on empty queues, the sweeps   *)
(* run every check_interval_sec and an event insert takes time and may     *)
(* fail.                                                                   *)

AloneMaxTime == 6

\* main._touch_last_seen, called by the ingest loop for a received message
WdTouch(topic) ==
    /\ ~shutdown
    /\ ~Busy
    /\ last_seen' = touch_last_seen(last_seen, topic, clock)
    /\ panel_last_seen' = touch_panel_last_seen(panel_last_seen, topic, clock)
    /\ last_seen' # last_seen \/ panel_last_seen' # panel_last_seen
    /\ UNCHANGED <<handler_vars, pipe_vars, clock, wd_vars>>

AloneInit ==
    /\ \E c \in Configs :
          /\ c.worker_count = 1
          /\ c.worker_max_retries = 0
          /\ c.drop_decoded_when_full
          /\ c.drop_decoded_policy = "drop_new"
          /\ InitWith(c, [msgs |-> 0, time |-> AloneMaxTime, watchdog |-> TRUE,
                          stamps |-> FALSE])
    /\ HandlersIdle
    /\ SideIdle

AloneNext ==
    \/ \E w \in ActiveWorkers : WorkerGet(w)
    \/ \E t \in Topics : WdTouch(t)
    \/ Tick
    \/ WdSweep
    \/ WdInsertOk
    \/ WdInsertFail

SpecWatchAlone == AloneInit /\ [][AloneNext]_vars

----------------------------------------------------------------------------
(* C39: between any two *_offline events of an entity there is an          *)
(* *_online event of that entity, whatever the arrivals, the sweep times   *)
(* and the failures of event inserts.                                      *)

C39_OfflineAlternates ==
    \A i, j \in 1..Len(events) :
        (i < j /\ events[i].entity = events[j].entity
         /\ events[i].type = "offline" /\ events[j].type = "offline") =>
            \E k \in (i + 1)..(j - 1) :
                events[k].entity = events[i].entity /\ events[k].type = "online"

----------------------------------------------------------------------------
(* C40: within one decoded message every history row staged for an addr    *)
(* has the value, raw, text and reason of the latest_state row staged for  *)
(* that addr, also when the message repeats the addr with other values.    *)

C40_HistoryMatchesLatest ==
    h_pc = "staged" =>
        \A i \in 1..Len(h_staged.history_batch) :
            LET row == h_staged.history_batch[i]
                latest == h_staged.latest_rows_map[row.addr]
            IN /\ row.value = latest.value
               /\ row.raw = latest.raw
               /\ row.text = latest.text
               /\ row.reason = latest.reason

====
